---- MODULE Spec2Model ----
(***************************************************************************)
(* Model of server/storage.ts (DatabaseStorage): the transaction ledger    *)
(* with its incrementally maintained DailyStats rows, and the stock ledger *)
(* (Inventory rows plus the StockMovement log).                            *)
(*                                                                         *)
(* A Date is a tuple <<year, month, day, timeOfDay>>.  Tables are          *)
(* sequences of rows in insertion order; a serial id is the row's position *)
(* for the tables that never delete, and nextTxId for transactions.        *)
(***************************************************************************)
EXTENDS Integers, Sequences, FiniteSets, TLC

VARIABLES
    transactions,   \* set of Transaction rows
    nextTxId,       \* serial id of the next Transaction row
    dailyStats,     \* sequence of DailyStats rows
    inventory,      \* sequence of Inventory rows
    stockMovements, \* sequence of StockMovement rows
    expenses,       \* sequence of Expense rows
    now,            \* the clock read by new Date()
    last,           \* the last completed storage call: name, arguments, outcome
    preStats,       \* dailyStats as it was before the createTransaction that the
                    \* last call was, or whose transaction the last call deleted
    preInv,         \* inventory as it was before the addStock that the last call
                    \* was, or whose quantity the last call removed again
    ncalls,         \* number of storage calls made so far
    calls           \* the storage calls in progress (interleaved executions)

vars == <<transactions, nextTxId, dailyStats, inventory, stockMovements,
          expenses, now, last, preStats, preInv, ncalls, calls>>

----------------------------------------------------------------------------
(* Bounds *)

MaxTx == 2          \* transactions created in one behaviour
MaxCalls == 3       \* ledger calls in one behaviour
MaxStockCalls == 3  \* stock calls in one behaviour

----------------------------------------------------------------------------
(* Dates (date-fns) *)

NoDate == <<0, 0, 0, 0>>

IsLeapYear(y) == (y % 4 = 0 /\ y % 100 # 0) \/ y % 400 = 0

DaysInMonth(y, m) ==
    IF m = 2 THEN (IF IsLeapYear(y) THEN 29 ELSE 28)
    ELSE IF m \in {4, 6, 9, 11} THEN 30 ELSE 31

\* startOfDay(date): the same calendar day at time 0
startOfDay(date) == <<date[1], date[2], date[3], 0>>

\* addMonths with the day overflowing into the following month, as a bare
\* Date.setMonth would do
addMonths_overflow(date, amount) ==
    LET mo0 == (date[2] - 1) + amount
        ey  == date[1] + (mo0 \div 12)
        em  == (mo0 % 12) + 1
        dim == DaysInMonth(ey, em)
    IN  IF date[3] > dim
        THEN (IF em = 12 THEN <<ey + 1, 1, date[3] - dim, date[4]>>
                         ELSE <<ey, em + 1, date[3] - dim, date[4]>>)
        ELSE <<ey, em, date[3], date[4]>>

\* addMonths(date, amount) of date-fns: the day of the month is kept unless
\* the desired month is shorter, in which case its last day is taken
addMonths(date, amount) ==
    LET dayOfMonth  == date[3]
        mo0         == (date[2] - 1) + amount
        ey          == date[1] + (mo0 \div 12)
        em          == (mo0 % 12) + 1
        daysInMonth == DaysInMonth(ey, em)
    IN  IF amount = 0 THEN date
        ELSE IF dayOfMonth >= daysInMonth
             THEN <<ey, em, daysInMonth, date[4]>>
             ELSE <<ey, em, dayOfMonth, date[4]>>

\* the instants the clock passes through
ClockDates == << <<2024, 1, 31, 1>>, <<2024, 2, 1, 0>> >>

\* the dates a request may carry
TxDates == { <<2024, 1, 31, 1>>, <<2024, 2, 1, 0>> }

TxDays == { startOfDay(d) : d \in TxDates \cup {ClockDates[1]} }

TransactionTypes == {"entry", "subscription", "cafe"}

Amounts == {1, 2}

----------------------------------------------------------------------------
(* Daily stats *)

undefined == [undefined |-> TRUE]

StatFields == {"totalRevenue", "entriesRevenue", "entriesCount",
               "subscriptionsRevenue", "subscriptionsCount",
               "cafeRevenue", "cafeOrdersCount"}

Max(a, b) == IF a >= b THEN a ELSE b

\* getDailyStats(date): result.length > 0 ? result[0] : undefined
getDailyStats(ds, date) ==
    LET dayStart == startOfDay(date)
        result   == SelectSeq(ds, LAMBDA r : r.date = dayStart)
    IN  IF Len(result) > 0 THEN result[1] ELSE undefined

\* the update branch of upsertDailyStats applying to the stored row the
\* difference between stats and the row that was found
upsertUpdate_increment(ds, existingStats, stats) ==
    [i \in 1..Len(ds) |->
        IF ds[i].id = existingStats.id
        THEN [f \in DOMAIN ds[i] |->
                IF f \in StatFields /\ f \in DOMAIN stats
                THEN ds[i][f] + (stats[f] - existingStats[f])
                ELSE ds[i][f]]
        ELSE ds[i]]

\* the update branch of upsertDailyStats without its where clause: the
\* fields are written to every row
upsertUpdate_nowhere(ds, existingStats, stats) ==
    [i \in 1..Len(ds) |->
        [f \in DOMAIN ds[i] |->
            IF f \in StatFields
            THEN (IF f \in DOMAIN stats THEN stats[f] ELSE existingStats[f])
            ELSE ds[i][f]]]

\* the update branch of upsertDailyStats: the fields present in stats are
\* written to the row whose id is existingStats.id
upsertUpdate(ds, existingStats, stats) ==
    [i \in 1..Len(ds) |->
        IF ds[i].id = existingStats.id
        THEN [f \in DOMAIN ds[i] |->
                IF f \in StatFields
                THEN (IF f \in DOMAIN stats THEN stats[f] ELSE existingStats[f])
                ELSE ds[i][f]]
        ELSE ds[i]]

\* the insert branch of upsertDailyStats: a new row for dayStart, absent
\* fields defaulting to 0
upsertInsert(ds, stats) ==
    LET dayStart == startOfDay(stats.date)
        val(f)   == IF f \in DOMAIN stats THEN stats[f] ELSE 0
    IN  Append(ds, [id                   |-> Len(ds) + 1,
                    date                 |-> dayStart,
                    totalRevenue         |-> val("totalRevenue"),
                    entriesRevenue       |-> val("entriesRevenue"),
                    entriesCount         |-> val("entriesCount"),
                    subscriptionsRevenue |-> val("subscriptionsRevenue"),
                    subscriptionsCount   |-> val("subscriptionsCount"),
                    cafeRevenue          |-> val("cafeRevenue"),
                    cafeOrdersCount      |-> val("cafeOrdersCount")])

upsertDailyStats(ds, stats) ==
    LET existingStats == getDailyStats(ds, startOfDay(stats.date))
    IN  IF existingStats # undefined
        THEN upsertUpdate(ds, existingStats, stats)
        ELSE upsertInsert(ds, stats)

\* the all-zero object updateStatsForTransaction starts from when the day
\* has no row
zeroStats(date) ==
    [id |-> 0, date |-> date,
     totalRevenue |-> 0, entriesRevenue |-> 0, entriesCount |-> 0,
     subscriptionsRevenue |-> 0, subscriptionsCount |-> 0,
     cafeRevenue |-> 0, cafeOrdersCount |-> 0]

\* addContribution with the total left alone
addContribution_nototal(stats, transaction) ==
    CASE transaction.type = "entry" ->
           [stats EXCEPT !.entriesRevenue = @ + transaction.amount,
                         !.entriesCount = @ + 1]
      [] transaction.type = "subscription" ->
           [stats EXCEPT !.subscriptionsRevenue = @ + transaction.amount,
                         !.subscriptionsCount = @ + 1]
      [] transaction.type = "cafe" ->
           [stats EXCEPT !.cafeRevenue = @ + transaction.amount,
                         !.cafeOrdersCount = @ + 1]
      [] OTHER -> stats

\* addContribution with the count left alone
addContribution_nocount(stats, transaction) ==
    LET s == [stats EXCEPT !.totalRevenue = @ + transaction.amount]
    IN  CASE transaction.type = "entry" ->
               [s EXCEPT !.entriesRevenue = @ + transaction.amount]
          [] transaction.type = "subscription" ->
               [s EXCEPT !.subscriptionsRevenue = @ + transaction.amount]
          [] transaction.type = "cafe" ->
               [s EXCEPT !.cafeRevenue = @ + transaction.amount]
          [] OTHER -> s

\* updateStatsForTransaction, the arithmetic: += amount on the total and on
\* the revenue of the transaction's type, += 1 on its count
addContribution(stats, transaction) ==
    LET s == [stats EXCEPT !.totalRevenue = @ + transaction.amount]
    IN  CASE transaction.type = "entry" ->
               [s EXCEPT !.entriesRevenue = @ + transaction.amount,
                         !.entriesCount = @ + 1]
          [] transaction.type = "subscription" ->
               [s EXCEPT !.subscriptionsRevenue = @ + transaction.amount,
                         !.subscriptionsCount = @ + 1]
          [] transaction.type = "cafe" ->
               [s EXCEPT !.cafeRevenue = @ + transaction.amount,
                         !.cafeOrdersCount = @ + 1]
          [] OTHER -> s

\* subtractContribution with the count lowered below 0
subtractContribution_noclamp(stats, transaction) ==
    LET s == [stats EXCEPT !.totalRevenue = @ - transaction.amount]
    IN  CASE transaction.type = "entry" ->
               [s EXCEPT !.entriesRevenue = @ - transaction.amount,
                         !.entriesCount = @ - 1]
          [] transaction.type = "subscription" ->
               [s EXCEPT !.subscriptionsRevenue = @ - transaction.amount,
                         !.subscriptionsCount = @ - 1]
          [] transaction.type = "cafe" ->
               [s EXCEPT !.cafeRevenue = @ - transaction.amount,
                         !.cafeOrdersCount = @ - 1]
          [] OTHER -> s

\* subtractContribution taking the amount off the total only
subtractContribution_totalonly(stats, transaction) ==
    [stats EXCEPT !.totalRevenue = @ - transaction.amount]

\* updateTransaction / deleteTransaction, the arithmetic: -= amount on the
\* total and on the revenue of the transaction's type, the count lowered by
\* one but never below 0
subtractContribution(stats, transaction) ==
    LET s == [stats EXCEPT !.totalRevenue = @ - transaction.amount]
    IN  CASE transaction.type = "entry" ->
               [s EXCEPT !.entriesRevenue = @ - transaction.amount,
                         !.entriesCount = Max(0, @ - 1)]
          [] transaction.type = "subscription" ->
               [s EXCEPT !.subscriptionsRevenue = @ - transaction.amount,
                         !.subscriptionsCount = Max(0, @ - 1)]
          [] transaction.type = "cafe" ->
               [s EXCEPT !.cafeRevenue = @ - transaction.amount,
                         !.cafeOrdersCount = Max(0, @ - 1)]
          [] OTHER -> s

updateStatsForTransaction(ds, transaction) ==
    LET transactionDate == startOfDay(transaction.date)
        found == getDailyStats(ds, transactionDate)
        stats == IF found = undefined THEN zeroStats(transactionDate) ELSE found
    IN  upsertDailyStats(ds, addContribution(stats, transaction))

\* the stats side of updateTransaction and deleteTransaction: if the
\* transaction's day has a row, its contribution is taken off that row
removeStatsForTransaction(ds, transaction) ==
    LET stats == getDailyStats(ds, startOfDay(transaction.date))
    IN  IF stats # undefined
        THEN upsertDailyStats(ds, subtractContribution(stats, transaction))
        ELSE ds

----------------------------------------------------------------------------
(* Transaction ledger *)

Has(rec, key) == key \in DOMAIN rec

EmptyRec == [k \in {} |-> 0]

\* a completed call: its name, its id argument (the generated id for a
\* create), its request body, its outcome, and the row it found
Call(op, id, data, res, orig) ==
    [op |-> op, id |-> id, data |-> data, res |-> res, orig |-> orig]

NoCall == Call("none", 0, EmptyRec, "none", undefined)

\* preStats when the last call did not create a transaction
NoStats == << undefined >>

\* preInv when the last call did not add stock
NoInv == << undefined >>

\* getTransaction(id) answering with some stored row when none has the id
getTransaction_any(txs, id) ==
    IF \E t \in txs : t.id = id
    THEN CHOOSE t \in txs : t.id = id
    ELSE IF txs # {} THEN CHOOSE t \in txs : TRUE ELSE undefined

\* getTransaction(id): result.length > 0 ? result[0] : undefined
getTransaction(txs, id) ==
    IF \E t \in txs : t.id = id
    THEN CHOOSE t \in txs : t.id = id
    ELSE undefined

\* the row db.insert(transactions).values(transaction) stores: the serial
\* id, the date defaulting to the clock, an absent end date stored as null,
\* absent notes stored as the empty text
insertedTransaction(transaction, id, clock) ==
    [id     |-> id,
     type   |-> transaction.type,
     amount |-> transaction.amount,
     date   |-> IF Has(transaction, "date") THEN transaction.date ELSE clock,
     subscriptionEndDate |->
         IF Has(transaction, "subscriptionEndDate")
         THEN transaction.subscriptionEndDate ELSE NoDate,
     notes  |-> IF Has(transaction, "notes") THEN transaction.notes ELSE ""]

\* createTransaction, the end-date rule: a subscription without an end date
\* gets addMonths(transaction.date || new Date(), 1)
withSubscriptionEnd(transaction, clock) ==
    IF transaction.type = "subscription"
       /\ ~ Has(transaction, "subscriptionEndDate")
    THEN transaction @@
         ("subscriptionEndDate" :>
             addMonths(IF Has(transaction, "date") THEN transaction.date
                                                   ELSE clock, 1))
    ELSE transaction

createTransaction(transaction) ==
    /\ nextTxId <= MaxTx
    /\ ncalls < MaxCalls
    /\ ncalls' = ncalls + 1
    /\ LET newTransaction ==
               insertedTransaction(withSubscriptionEnd(transaction, now),
                                   nextTxId, now)
       IN  /\ transactions' = transactions \cup {newTransaction}
           /\ nextTxId' = nextTxId + 1
           /\ dailyStats' = updateStatsForTransaction(dailyStats, newTransaction)
           /\ last' = Call("createTransaction", newTransaction.id, transaction,
                        "ok", undefined)
    /\ preStats' = dailyStats
    /\ UNCHANGED <<inventory, stockMovements, expenses, now, preInv, calls>>

\* updateTransaction, the end-date rule: a patch to type subscription without
\* an end date gets addMonths(data.date || original.date || new Date(), 1)
patchWithSubscriptionEnd(data, originalTransaction, clock) ==
    IF Has(data, "type") /\ data.type = "subscription"
       /\ ~ Has(data, "subscriptionEndDate")
    THEN LET startDate == IF Has(data, "date") THEN data.date
                          ELSE IF originalTransaction.date # NoDate
                               THEN originalTransaction.date
                               ELSE clock
         IN  data @@ ("subscriptionEndDate" :> addMonths(startDate, 1))
    ELSE data

\* db.update(transactions).set(data): the columns named by data are replaced
setColumns(row, data) ==
    [f \in DOMAIN row |-> IF f \in DOMAIN data THEN data[f] ELSE row[f]]

\* the stats reconciliation of updateTransaction with both contributions
\* applied to the row of the new date
reconcile_newday(ds, originalTransaction, updatedTransaction) ==
    updateStatsForTransaction(
        removeStatsForTransaction(ds,
            [originalTransaction EXCEPT !.date = updatedTransaction.date]),
        updatedTransaction)

\* the stats reconciliation of updateTransaction: the original contribution
\* is taken off the row of the original date, then the updated transaction
\* is added to the row of its date
reconcile(ds, originalTransaction, updatedTransaction) ==
    updateStatsForTransaction(
        removeStatsForTransaction(ds, originalTransaction),
        updatedTransaction)

\* the condition of the stats reconciliation of updateTransaction, always met
touchesStats_always(data) == TRUE

\* the condition of the stats reconciliation of updateTransaction:
\* data.amount, data.date or data.type is given
touchesStats(data) ==
    Has(data, "amount") \/ Has(data, "date") \/ Has(data, "type")

updateTransaction(id, data) ==
    LET originalTransaction == getTransaction(transactions, id)
    IN  /\ ncalls < MaxCalls
        /\ ncalls' = ncalls + 1
        /\ IF originalTransaction = undefined
           THEN /\ last' = Call("updateTransaction", id, data, "undefined",
                                undefined)
                /\ UNCHANGED <<transactions, dailyStats>>
           ELSE LET patch == patchWithSubscriptionEnd(data, originalTransaction, now)
                    updatedTransaction == setColumns(originalTransaction, patch)
                IN  /\ transactions' =
                           (transactions \ {originalTransaction})
                               \cup {updatedTransaction}
                    /\ dailyStats' =
                           IF touchesStats(data)
                           THEN reconcile(dailyStats, originalTransaction,
                                          updatedTransaction)
                           ELSE dailyStats
                    /\ last' = Call("updateTransaction", id, data, "ok",
                                    originalTransaction)
        /\ preStats' = NoStats
        /\ UNCHANGED <<nextTxId, inventory, stockMovements, expenses, now,
                       preInv, calls>>

deleteTransaction(id) ==
    LET transaction == getTransaction(transactions, id)
    IN  /\ ncalls < MaxCalls
        /\ ncalls' = ncalls + 1
        /\ IF transaction = undefined
           THEN /\ last' = Call("deleteTransaction", id, EmptyRec, "false",
                                undefined)
                /\ preStats' = NoStats
                /\ UNCHANGED <<transactions, dailyStats>>
           ELSE /\ transactions' = transactions \ {transaction}
                /\ dailyStats' = removeStatsForTransaction(dailyStats, transaction)
                /\ last' = Call("deleteTransaction", id, EmptyRec, "true",
                                transaction)
                \* the baseline of a create is kept while its transaction
                \* is deleted by the very next call
                /\ preStats' = IF last.op = "createTransaction" /\ last.id = id
                               THEN preStats ELSE NoStats
        /\ UNCHANGED <<nextTxId, inventory, stockMovements, expenses, now,
                       preInv, calls>>

\* new Date() moves on to the next instant
Tick ==
    /\ \E i \in 1..(Len(ClockDates) - 1) :
           now = ClockDates[i] /\ now' = ClockDates[i + 1]
    /\ UNCHANGED <<transactions, nextTxId, dailyStats, inventory,
                   stockMovements, expenses, last, preStats, preInv, ncalls,
                   calls>>

Opt(key, S) == {EmptyRec} \cup { key :> v : v \in S }

\* request bodies of POST /transactions
TxInputs ==
    { [type |-> ty, amount |-> a] @@ d :
        ty \in TransactionTypes, a \in Amounts,
        d \in Opt("date", {<<2024, 2, 1, 0>>}) }

\* request bodies of PATCH /transactions/:id
TxPatches ==
    ({ a @@ d @@ ty :
        a \in Opt("amount", {2}), d \in Opt("date", TxDates),
        ty \in Opt("type", TransactionTypes) } \ {EmptyRec})
    \cup { "notes" :> "n" }

\* the ids of the stored transactions and one id that is not stored
TxIds == { t.id : t \in transactions } \cup {nextTxId}

Init ==
    /\ transactions = {}
    /\ nextTxId = 1
    /\ dailyStats = <<>>
    /\ inventory = <<>>
    /\ stockMovements = <<>>
    /\ expenses = <<>>
    /\ now = ClockDates[1]
    /\ last = NoCall
    /\ preStats = NoStats
    /\ preInv = NoInv
    /\ ncalls = 0
    /\ calls = <<>>

NextTx ==
    \/ \E transaction \in TxInputs : createTransaction(transaction)
    \/ \E id \in TxIds, data \in TxPatches : updateTransaction(id, data)
    \/ \E id \in TxIds : deleteTransaction(id)

\* the transaction ledger, one call at a time
SpecTx == Init /\ [][NextTx]_vars

----------------------------------------------------------------------------
(* Properties of the transaction ledger *)

StoredOn(day, types) ==
    { t \in transactions : startOfDay(t.date) = day /\ t.type \in types }

RECURSIVE SumAmounts(_)
SumAmounts(S) ==
    IF S = {} THEN 0
    ELSE LET t == CHOOSE x \in S : TRUE
         IN  t.amount + SumAmounts(S \ {t})

\* the DailyStats values of a day, an absent row counting as all zeros
StatsOf(ds, day) ==
    LET r == getDailyStats(ds, day)
    IN  IF r = undefined THEN zeroStats(day) ELSE r

SameValues(r1, r2) == \A f \in StatFields : r1[f] = r2[f]

\* C1: after every completed call of a sequence of createTransaction,
\* updateTransaction and deleteTransaction calls, the DailyStats values of
\* every day equal the per-type sums and counts of the stored transactions
\* dated on that day, and totalRevenue equals the sum of all their amounts.
C1_StatsMatchLedger ==
    \A day \in TxDays :
        LET s == StatsOf(dailyStats, day)
        IN  /\ s.entriesRevenue = SumAmounts(StoredOn(day, {"entry"}))
            /\ s.subscriptionsRevenue = SumAmounts(StoredOn(day, {"subscription"}))
            /\ s.cafeRevenue = SumAmounts(StoredOn(day, {"cafe"}))
            /\ s.entriesCount = Cardinality(StoredOn(day, {"entry"}))
            /\ s.subscriptionsCount = Cardinality(StoredOn(day, {"subscription"}))
            /\ s.cafeOrdersCount = Cardinality(StoredOn(day, {"cafe"}))
            /\ s.totalRevenue = SumAmounts(StoredOn(day, TransactionTypes))

\* an update completed with two transactions of one type stored on one day
C1_Witness ==
    /\ last.op = "updateTransaction" /\ last.res = "ok"
    /\ \E day \in TxDays, ty \in TransactionTypes :
           Cardinality(StoredOn(day, {ty})) >= 2

\* C5: createTransaction(t) followed by deleteTransaction of the created id
\* leaves the DailyStats values of t's day as they were before the create
\* (an absent row counting as all zeros) and every other day's row unchanged.
C5_CreateDeleteRoundTrip ==
    (last.op = "deleteTransaction" /\ last.res = "true" /\ preStats # NoStats)
    => LET tday == startOfDay(last.orig.date)
       IN  /\ SameValues(StatsOf(dailyStats, tday), StatsOf(preStats, tday))
           /\ \A day \in TxDays \ {tday} :
                  getDailyStats(dailyStats, day) = getDailyStats(preStats, day)

\* a transaction was created on a day that already had revenue, and deleted
\* by the next call
C5_Witness ==
    /\ last.op = "deleteTransaction" /\ last.res = "true"
    /\ preStats # NoStats
    /\ StatsOf(preStats, startOfDay(last.orig.date)).totalRevenue > 0
    /\ \E day \in TxDays : getDailyStats(preStats, day) = undefined

RevenueField(type) ==
    IF type = "entry" THEN "entriesRevenue"
    ELSE IF type = "subscription" THEN "subscriptionsRevenue"
    ELSE "cafeRevenue"

CountField(type) ==
    IF type = "entry" THEN "entriesCount"
    ELSE IF type = "subscription" THEN "subscriptionsCount"
    ELSE "cafeOrdersCount"

\* row r2 is row r1 with amount added to the total and to the revenue of
\* type, and n added to the count of type
Shifted(r1, r2, type, amount, n) ==
    \A f \in StatFields :
        r2[f] = r1[f] + (IF f \in {"totalRevenue", RevenueField(type)}
                         THEN amount
                         ELSE IF f = CountField(type) THEN n ELSE 0)

MovedDay(call, txs) ==
    /\ call.op = "updateTransaction" /\ call.res = "ok"
    /\ startOfDay(call.orig.date) #
           startOfDay(getTransaction(txs, call.id).date)

\* C6: an updateTransaction that moves a transaction from day D1 to another
\* day D2 takes the ORIGINAL amount and one count of the ORIGINAL type off
\* the row of D1, and adds the NEW amount and one count of the NEW type to
\* the row of D2, which starts from zeros when absent.
C6_MoveBetweenDays ==
    [][ (ncalls' = ncalls + 1 /\ MovedDay(last', transactions'))
        => LET orig    == last'.orig
               updated == getTransaction(transactions', last'.id)
               d1      == startOfDay(orig.date)
               d2      == startOfDay(updated.date)
           IN  /\ getDailyStats(dailyStats, d1) # undefined
               /\ Shifted(StatsOf(dailyStats, d1), StatsOf(dailyStats', d1),
                          orig.type, 0 - orig.amount, 0 - 1)
               /\ getDailyStats(dailyStats', d2) # undefined
               /\ Shifted(StatsOf(dailyStats, d2), StatsOf(dailyStats', d2),
                          updated.type, updated.amount, 1)
      ]_vars

\* a transaction was moved to another day with its amount and type changed
\* as well, while another transaction is stored
C6_Witness ==
    /\ MovedDay(last, transactions)
    /\ last.orig.amount # getTransaction(transactions, last.id).amount
    /\ last.orig.type # getTransaction(transactions, last.id).type
    /\ Cardinality(transactions) >= 2

----------------------------------------------------------------------------
(* Subscription end dates over the calendar *)

\* instants around the ends of months of different lengths
CalDates ==
    { <<y, m, d, 1>> : y \in {2023, 2024}, m \in {1, 2, 3, 11, 12},
                       d \in {1, 15, 28, 29, 30, 31} }
    \cap { <<y, m, d, 1>> : y \in {2023, 2024}, m \in 1..12,
                            d \in 1..31 }

ValidCalDates == { c \in CalDates : c[3] <= DaysInMonth(c[1], c[2]) }

ExplicitEnd == <<2024, 6, 15, 0>>

\* request bodies of POST /transactions with and without an end date
SubInputs ==
    { [type |-> ty, amount |-> 1] @@ d @@ e :
        ty \in {"subscription", "entry"}, d \in Opt("date", TxDates),
        e \in Opt("subscriptionEndDate", {ExplicitEnd}) }

\* the server may be started at any instant
InitSub ==
    /\ transactions = {}
    /\ nextTxId = 1
    /\ dailyStats = <<>>
    /\ inventory = <<>>
    /\ stockMovements = <<>>
    /\ expenses = <<>>
    /\ now \in ValidCalDates
    /\ last = NoCall
    /\ preStats = NoStats
    /\ preInv = NoInv
    /\ ncalls = 0
    /\ calls = <<>>

NextSub ==
    \E transaction \in SubInputs : createTransaction(transaction)

\* transactions created at any instant of the calendar
SpecSub == InitSub /\ [][NextSub]_vars

\* the date one calendar month after date: the same day of the next month,
\* or that month's last day when it has no such day, at the same time
PlusOneCalendarMonth(date) ==
    LET y == IF date[2] = 12 THEN date[1] + 1 ELSE date[1]
        m == IF date[2] = 12 THEN 1 ELSE date[2] + 1
        d == IF date[3] <= DaysInMonth(y, m) THEN date[3] ELSE DaysInMonth(y, m)
    IN  <<y, m, d, date[4]>>

\* C7: createTransaction with type subscription and no subscriptionEndDate
\* stores subscriptionEndDate = date + 1 calendar month; an end date that is
\* supplied is stored unchanged.
C7_SubscriptionEndDate ==
    last.op = "createTransaction"
    => LET stored == getTransaction(transactions, last.id)
       IN  /\ (last.data.type = "subscription"
               /\ ~ Has(last.data, "subscriptionEndDate"))
              => stored.subscriptionEndDate = PlusOneCalendarMonth(stored.date)
           /\ Has(last.data, "subscriptionEndDate")
              => stored.subscriptionEndDate = last.data.subscriptionEndDate

\* a subscription without an end date was created on the 31st of a month
\* followed by a shorter one
C7_Witness ==
    /\ last.op = "createTransaction"
    /\ last.data.type = "subscription"
    /\ ~ Has(last.data, "subscriptionEndDate")
    /\ LET stored == getTransaction(transactions, last.id)
       IN  stored.date[3] = 31 /\ stored.subscriptionEndDate[3] < 31

\* a subscription was created with an explicit end date
C7_WitnessExplicit ==
    /\ last.op = "createTransaction"
    /\ last.data.type = "subscription"
    /\ Has(last.data, "subscriptionEndDate")

----------------------------------------------------------------------------
(* Stock ledger *)

Products == {1, 2}

\* quantity arguments, valid and invalid
QtyArgs == {0 - 1, 0, 1, 2}

\* whether no expense gets inserted although the purchase price is positive:
\* the select of the product or createExpense throws inside the try block,
\* or the product is not found
Failures(purchasePrice) == IF purchasePrice > 0 THEN BOOLEAN ELSE {FALSE}

\* unit purchase prices; 0 stands for an absent purchasePrice
Prices == {0, 3}

\* getInventoryItemByProductId(productId)
getInventoryItemByProductId(inv, productId) ==
    LET result == SelectSeq(inv, LAMBDA r : r.productId = productId)
    IN  IF Len(result) > 0 THEN result[1] ELSE undefined

\* the duplicate check of createInventoryItem, never refusing
alreadyExists_never(existingItem) == FALSE

\* the duplicate check of createInventoryItem: if (existingItem) throw
alreadyExists(existingItem) == existingItem # undefined

\* the purchase price of the product's row, 0 without one
PriceOf(productId) ==
    LET invItem == getInventoryItemByProductId(inventory, productId)
    IN  IF invItem = undefined THEN 0 ELSE invItem.purchasePrice

\* db.insert(inventory).values(item): the row stored for item
insertedInventory(inv, item) ==
    [id              |-> Len(inv) + 1,
     productId       |-> item.productId,
     quantity        |-> item.quantity,
     minThreshold    |-> item.minThreshold,
     purchasePrice   |-> IF Has(item, "purchasePrice") THEN item.purchasePrice
                                                        ELSE 0,
     lastRestockDate |-> IF Has(item, "lastRestockDate")
                         THEN item.lastRestockDate ELSE NoDate]

\* updateInventoryItem(id, item): the columns named by item are replaced in
\* the row with that id
setInventory(inv, id, item) ==
    [i \in 1..Len(inv) |->
        IF inv[i].id = id THEN setColumns(inv[i], item) ELSE inv[i]]

\* createExpense for a stock purchase, inserting the expense twice
purchaseExpense_twice(exps, amount, fails) ==
    IF fails THEN exps
    ELSE LET once == Append(exps, [id |-> Len(exps) + 1, amount |-> amount,
                                   category |-> "supplies"])
         IN  Append(once, [id |-> Len(once) + 1, amount |-> amount,
                           category |-> "supplies"])

\* createExpense for a stock purchase; the insert may fail, which the
\* caller catches
purchaseExpense(exps, amount, fails) ==
    IF fails THEN exps
    ELSE Append(exps, [id |-> Len(exps) + 1, amount |-> amount,
                       category |-> "supplies"])

\* the outcome of addStock with the error of the expense thrown on
expenseOutcome_rethrow(fails) == IF fails THEN "ExpenseFailed" ELSE "ok"

\* the outcome of addStock after the try block of the expense: the catch
\* logs the error and the call returns its result
expenseOutcome(fails) == "ok"

\* the item addStock and adjustStock create for a product without a row
autoItem(productId, clock) ==
    [productId |-> productId, quantity |-> 0, minThreshold |-> 5,
     lastRestockDate |-> clock]

\* the StockMovement row a stock call inserts
movementRow(moves, invItem, productId, quantity, actionType) ==
    [id |-> Len(moves) + 1, inventoryId |-> invItem.id,
     productId |-> productId, quantity |-> quantity,
     actionType |-> actionType]

\* the insert of a stock call writing over the latest row of the log
insertMovement_overwrite(moves, row) ==
    IF moves = <<>> THEN <<row>>
    ELSE [moves EXCEPT ![Len(moves)] = row]

\* db.insert(stockMovements).values(...): the row is added to the log
insertMovement(moves, row) == Append(moves, row)

\* the argument check of addStock and removeStock letting zero through
notPositive_zero(quantity) == quantity < 0

\* the argument check of addStock and removeStock: quantity <= 0 throws
notPositive(quantity) == quantity <= 0

\* the argument check of adjustStock: newQuantity < 0 throws
negative(newQuantity) == newQuantity < 0

\* the sufficiency check of removeStock, never refusing
enoughStock_always(invItem, quantity) == TRUE

\* the sufficiency check of removeStock: invItem.quantity < quantity throws
enoughStock(invItem, quantity) == ~ (invItem.quantity < quantity)

\* the quantity addStock writes, with the argument ignored
addedQuantity_same(invItem, quantity) == invItem.quantity

\* the quantity addStock writes
addedQuantity(invItem, quantity) == invItem.quantity + quantity

\* the quantity removeStock writes, with the operands swapped
removedQuantity_swapped(invItem, quantity) == quantity - invItem.quantity

\* the quantity removeStock writes, with nothing taken off
removedQuantity_keep(invItem, quantity) == invItem.quantity

\* the quantity removeStock writes, off by one
removedQuantity_offbyone(invItem, quantity) == invItem.quantity - quantity + 1

\* the quantity removeStock writes
removedQuantity(invItem, quantity) == invItem.quantity - quantity

\* the patch adjustStock writes, always refreshing lastRestockDate
adjustPatch_refresh(newQuantity, quantityChange, clock) ==
    [quantity |-> newQuantity, lastRestockDate |-> clock]

\* the patch adjustStock writes: the new quantity, and lastRestockDate when
\* the quantity grows
adjustPatch(newQuantity, quantityChange, clock) ==
    IF quantityChange > 0
    THEN [quantity |-> newQuantity, lastRestockDate |-> clock]
    ELSE [quantity |-> newQuantity]

\* the row removeStock works on, taken as addStock takes it: the row of a
\* product without one is made up
itemToRemoveFrom_autocreate(inv, productId, clock) ==
    LET found == getInventoryItemByProductId(inv, productId)
    IN  IF found = undefined
        THEN insertedInventory(inv, autoItem(productId, clock))
        ELSE found

\* the row removeStock works on: the product's row if there is one
itemToRemoveFrom(inv, productId, clock) ==
    getInventoryItemByProductId(inv, productId)

StockFrame == UNCHANGED <<transactions, nextTxId, dailyStats, now, preStats,
                          calls>>

createInventoryItem(item, fails) ==
    /\ ncalls < MaxStockCalls
    /\ ncalls' = ncalls + 1
    /\ LET existingItem == getInventoryItemByProductId(inventory, item.productId)
       IN  IF alreadyExists(existingItem)
           THEN /\ last' = Call("createInventoryItem", item.productId, item,
                                "AlreadyExists", existingItem)
                /\ UNCHANGED <<inventory, expenses>>
           ELSE /\ inventory' = Append(inventory,
                                       insertedInventory(inventory, item))
                /\ expenses' =
                       IF Has(item, "purchasePrice") /\ item.purchasePrice > 0
                       THEN purchaseExpense(expenses,
                                item.purchasePrice *
                                    (IF item.quantity # 0 THEN item.quantity
                                                          ELSE 1),
                                fails)
                       ELSE expenses
                /\ last' = Call("createInventoryItem", item.productId, item,
                                "ok", undefined)
    /\ preInv' = NoInv
    /\ UNCHANGED stockMovements
    /\ StockFrame

updateInventoryItem(id, item) ==
    /\ ncalls < MaxStockCalls
    /\ ncalls' = ncalls + 1
    /\ inventory' = setInventory(inventory, id, item)
    /\ last' = Call("updateInventoryItem", id, item,
                    IF \E i \in 1..Len(inventory) : inventory[i].id = id
                    THEN "ok" ELSE "undefined", undefined)
    /\ preInv' = NoInv
    /\ UNCHANGED <<stockMovements, expenses>>
    /\ StockFrame

addStock(productId, quantity, fails) ==
    /\ ncalls < MaxStockCalls
    /\ ncalls' = ncalls + 1
    /\ LET found   == getInventoryItemByProductId(inventory, productId)
           created == insertedInventory(inventory, autoItem(productId, now))
           invItem == IF found = undefined THEN created ELSE found
           inv1    == IF found = undefined THEN Append(inventory, created)
                                           ELSE inventory
           data    == [quantity |-> quantity]
       IN  IF notPositive(quantity)
           THEN /\ last' = Call("addStock", productId, data, "NotPositive",
                                undefined)
                /\ preInv' = NoInv
                /\ UNCHANGED <<inventory, stockMovements, expenses>>
           ELSE /\ inventory' =
                       setInventory(inv1, invItem.id,
                           [quantity |-> addedQuantity(invItem, quantity),
                            lastRestockDate |-> now])
                /\ stockMovements' =
                       insertMovement(stockMovements,
                              movementRow(stockMovements, invItem, productId,
                                          quantity, "add"))
                /\ expenses' =
                       IF invItem.purchasePrice > 0
                       THEN purchaseExpense(expenses,
                                invItem.purchasePrice * quantity, fails)
                       ELSE expenses
                /\ last' = Call("addStock", productId, data,
                                expenseOutcome(fails), found)
                           @@ ("noExpense" :> fails)
                /\ preInv' = inventory
    /\ StockFrame

removeStock(productId, quantity) ==
    /\ ncalls < MaxStockCalls
    /\ ncalls' = ncalls + 1
    /\ LET invItem == itemToRemoveFrom(inventory, productId, now)
           data    == [quantity |-> quantity]
           \* the baseline of an addStock is kept while the same
           \* quantity of the same product is removed by the next call
           baseline == IF last.op = "addStock" /\ last.res = "ok"
                          /\ last.id = productId /\ last.data = data
                       THEN preInv ELSE NoInv
           fail(res) == /\ last' = Call("removeStock", productId, data, res,
                                        invItem)
                        /\ preInv' = baseline
                        /\ UNCHANGED <<inventory, stockMovements>>
       IN  IF notPositive(quantity) THEN fail("NotPositive")
           ELSE IF invItem = undefined THEN fail("NotFound")
           ELSE IF ~ enoughStock(invItem, quantity) THEN fail("NotEnoughStock")
           ELSE /\ inventory' =
                       setInventory(inventory, invItem.id,
                           [quantity |-> removedQuantity(invItem, quantity)])
                /\ stockMovements' =
                       insertMovement(stockMovements,
                              movementRow(stockMovements, invItem, productId,
                                          0 - quantity, "remove"))
                /\ last' = Call("removeStock", productId, data, "ok", invItem)
                /\ preInv' = baseline
    /\ UNCHANGED expenses
    /\ StockFrame

adjustStock(productId, newQuantity) ==
    /\ ncalls < MaxStockCalls
    /\ ncalls' = ncalls + 1
    /\ LET found   == getInventoryItemByProductId(inventory, productId)
           created == insertedInventory(inventory, autoItem(productId, now))
           invItem == IF found = undefined THEN created ELSE found
           inv1    == IF found = undefined THEN Append(inventory, created)
                                           ELSE inventory
           quantityChange == newQuantity - invItem.quantity
           data    == [quantity |-> newQuantity]
       IN  IF negative(newQuantity)
           THEN /\ last' = Call("adjustStock", productId, data, "Negative",
                                undefined)
                /\ UNCHANGED <<inventory, stockMovements>>
           ELSE /\ inventory' =
                       setInventory(inv1, invItem.id,
                           adjustPatch(newQuantity, quantityChange, now))
                /\ stockMovements' =
                       insertMovement(stockMovements,
                              movementRow(stockMovements, invItem, productId,
                                          quantityChange, "adjust"))
                /\ last' = Call("adjustStock", productId, data, "ok", found)
    /\ preInv' = NoInv
    /\ UNCHANGED expenses
    /\ StockFrame

\* bodies of createInventoryItem
InventoryInputs ==
    { [productId |-> p, quantity |-> q, minThreshold |-> 5] @@ pp :
        p \in Products, q \in {0, 1}, pp \in Opt("purchasePrice", Prices \ {0}) }

\* bodies of updateInventoryItem
InventoryPatches ==
    { q @@ pp : q \in Opt("quantity", {0, 2}),
                pp \in Opt("purchasePrice", Prices) } \ {EmptyRec}

NextStock ==
    \/ \E item \in InventoryInputs :
           \E fails \in Failures(IF Has(item, "purchasePrice")
                                 THEN item.purchasePrice ELSE 0) :
               createInventoryItem(item, fails)
    \/ \E id \in 1..(Len(inventory) + 1), item \in InventoryPatches :
           updateInventoryItem(id, item)
    \/ \E productId \in Products, quantity \in QtyArgs \ {0 - 1} :
           \E fails \in Failures(PriceOf(productId)) :
               addStock(productId, quantity, fails)
    \/ \E productId \in Products, quantity \in QtyArgs \ {0 - 1} :
           removeStock(productId, quantity)
    \/ \E productId \in Products, newQuantity \in QtyArgs :
           adjustStock(productId, newQuantity)
    \/ Tick

\* the stock ledger, one call at a time
SpecStock == Init /\ [][NextStock]_vars

----------------------------------------------------------------------------
(* Stock calls in progress: every await of a call is a step of its own *)

Procs == {1, 2}

Idle == [op |-> "none", productId |-> 0, quantity |-> 0, pc |-> "idle",
         invItem |-> undefined]

\* an inventory row created earlier through createInventoryItem
SeededInventory ==
    << [id |-> 1, productId |-> 1, quantity |-> 1, minThreshold |-> 5,
        purchasePrice |-> 3, lastRestockDate |-> NoDate] >>

InitConc ==
    /\ transactions = {}
    /\ nextTxId = 1
    /\ dailyStats = <<>>
    /\ inventory = SeededInventory
    /\ stockMovements = <<>>
    /\ expenses = <<>>
    /\ now = ClockDates[1]
    /\ last = NoCall
    /\ preStats = NoStats
    /\ preInv = NoInv
    /\ ncalls = 0
    /\ calls = [p \in Procs |-> Idle]

ConcFrame == UNCHANGED <<transactions, nextTxId, dailyStats, now, preStats,
                         preInv>>

Goto(p, pc, invItem) ==
    calls' = [calls EXCEPT ![p].pc = pc, ![p].invItem = invItem]

\* the call of process p ends with outcome res
Finish(p, res) ==
    /\ last' = Call(calls[p].op, calls[p].productId,
                    [quantity |-> calls[p].quantity], res, undefined)
    /\ calls' = [calls EXCEPT ![p] = Idle]

\* addStock / removeStock / adjustStock is called: the argument check
BeginStock(p, op, productId, quantity) ==
    /\ calls[p].pc = "idle"
    /\ ncalls < MaxStockCalls
    /\ ncalls' = ncalls + 1
    /\ IF (op = "adjustStock" /\ negative(quantity))
          \/ (op # "adjustStock" /\ notPositive(quantity))
       THEN /\ last' = Call(op, productId, [quantity |-> quantity],
                            IF op = "adjustStock" THEN "Negative"
                                                  ELSE "NotPositive",
                            undefined)
            /\ UNCHANGED calls
       ELSE /\ calls' = [calls EXCEPT ![p] =
                            [op |-> op, productId |-> productId,
                             quantity |-> quantity, pc |-> "read",
                             invItem |-> undefined]]
            /\ UNCHANGED last
    /\ UNCHANGED <<inventory, stockMovements, expenses>>
    /\ ConcFrame

\* await this.getInventoryItemByProductId(productId)
ReadInventory(p) ==
    /\ calls[p].pc = "read"
    /\ LET invItem == IF calls[p].op = "removeStock"
                      THEN itemToRemoveFrom(inventory, calls[p].productId, now)
                      ELSE getInventoryItemByProductId(inventory,
                                                       calls[p].productId)
       IN  IF calls[p].op = "removeStock"
           THEN IF invItem = undefined
                THEN Finish(p, "NotFound")
                ELSE IF ~ enoughStock(invItem, calls[p].quantity)
                THEN Finish(p, "NotEnoughStock")
                ELSE Goto(p, "update", invItem) /\ UNCHANGED last
           ELSE IF invItem = undefined
                THEN Goto(p, "create_read", undefined) /\ UNCHANGED last
                ELSE Goto(p, "update", invItem) /\ UNCHANGED last
    /\ UNCHANGED <<inventory, stockMovements, expenses, ncalls>>
    /\ ConcFrame

\* the body of an interleaved createInventoryItem call
NewItem(productId) ==
    [productId |-> productId, quantity |-> 1, minThreshold |-> 5,
     purchasePrice |-> 3]

\* createInventoryItem is called
BeginCreateItem(p, productId) ==
    /\ calls[p].pc = "idle"
    /\ ncalls < MaxStockCalls
    /\ ncalls' = ncalls + 1
    /\ calls' = [calls EXCEPT ![p] =
                    [op |-> "createInventoryItem", productId |-> productId,
                     quantity |-> NewItem(productId).quantity,
                     pc |-> "create_read", invItem |-> undefined]]
    /\ UNCHANGED <<inventory, stockMovements, expenses, last>>
    /\ ConcFrame

\* createInventoryItem: await this.getInventoryItemByProductId(item.productId)
CreateRead(p) ==
    /\ calls[p].pc = "create_read"
    /\ IF alreadyExists(getInventoryItemByProductId(inventory,
                                                    calls[p].productId))
       THEN Finish(p, "AlreadyExists")
       ELSE Goto(p, "create_insert", undefined) /\ UNCHANGED last
    /\ UNCHANGED <<inventory, stockMovements, expenses, ncalls>>
    /\ ConcFrame

\* the insert of an Inventory row always accepted
violatesUniqueProduct_never(inv, productId) == FALSE

\* Inventory.productId is unique: the insert of a second row for a product
\* is refused
violatesUniqueProduct(inv, productId) ==
    \E i \in 1..Len(inv) : inv[i].productId = productId

\* createInventoryItem: await db.insert(inventory).values(...)
CreateInsert(p) ==
    /\ calls[p].pc = "create_insert"
    /\ LET direct  == calls[p].op = "createInventoryItem"
           created == insertedInventory(inventory,
                          IF direct THEN NewItem(calls[p].productId)
                          ELSE autoItem(calls[p].productId, now))
       IN  IF violatesUniqueProduct(inventory, calls[p].productId)
           THEN /\ Finish(p, "UniqueViolation")
                /\ UNCHANGED inventory
           ELSE /\ inventory' = Append(inventory, created)
                /\ Goto(p, IF direct THEN "expense" ELSE "update", created)
                /\ UNCHANGED last
    /\ UNCHANGED <<stockMovements, expenses, ncalls>>
    /\ ConcFrame

\* createInventoryItem: the expense of the purchase, inside its try block
CreateExpense(p, fails) ==
    /\ calls[p].pc = "expense"
    /\ LET item == NewItem(calls[p].productId)
       IN  expenses' =
               IF Has(item, "purchasePrice") /\ item.purchasePrice > 0
               THEN purchaseExpense(expenses,
                        item.purchasePrice *
                            (IF item.quantity # 0 THEN item.quantity ELSE 1),
                        fails)
               ELSE expenses
    /\ Finish(p, "ok")
    /\ UNCHANGED <<inventory, stockMovements, ncalls>>
    /\ ConcFrame

\* await this.updateInventoryItem(invItem.id, ...)
UpdateInventory(p) ==
    /\ calls[p].pc = "update"
    /\ LET invItem  == calls[p].invItem
           quantity == calls[p].quantity
       IN  inventory' =
               setInventory(inventory, invItem.id,
                   CASE calls[p].op = "addStock" ->
                          [quantity |-> addedQuantity(invItem, quantity),
                           lastRestockDate |-> now]
                     [] calls[p].op = "removeStock" ->
                          [quantity |-> removedQuantity(invItem, quantity)]
                     [] OTHER ->
                          adjustPatch(quantity, quantity - invItem.quantity,
                                      now))
    /\ calls' = [calls EXCEPT ![p].pc = "move"]
    /\ UNCHANGED <<stockMovements, expenses, last, ncalls>>
    /\ ConcFrame

\* await db.insert(stockMovements).values(...), then for addStock the
\* expense of the purchase
InsertMovement(p, fails) ==
    /\ calls[p].pc = "move"
    /\ LET invItem  == calls[p].invItem
           quantity == calls[p].quantity
       IN  /\ stockMovements' =
                  insertMovement(stockMovements,
                      movementRow(stockMovements, invItem, calls[p].productId,
                          CASE calls[p].op = "addStock" -> quantity
                            [] calls[p].op = "removeStock" -> 0 - quantity
                            [] OTHER -> quantity - invItem.quantity,
                          CASE calls[p].op = "addStock" -> "add"
                            [] calls[p].op = "removeStock" -> "remove"
                            [] OTHER -> "adjust"))
           /\ expenses' =
                  IF calls[p].op = "addStock" /\ invItem.purchasePrice > 0
                  THEN purchaseExpense(expenses,
                           invItem.purchasePrice * quantity, fails)
                  ELSE expenses
    /\ Finish(p, IF calls[p].op = "addStock" THEN expenseOutcome(fails)
                                              ELSE "ok")
    /\ UNCHANGED <<inventory, ncalls>>
    /\ ConcFrame

\* quantity arguments of the interleaved calls, valid and invalid
ConcQtyArgs(op) == IF op = "adjustStock" THEN {0 - 1, 0, 2} ELSE {0, 1}

NextConc ==
    \/ \E p \in Procs, op \in {"addStock", "removeStock", "adjustStock"},
          productId \in Products :
           \E quantity \in ConcQtyArgs(op) :
               BeginStock(p, op, productId, quantity)
    \/ \E p \in Procs, productId \in Products : BeginCreateItem(p, productId)
    \/ \E p \in Procs : ReadInventory(p)
    \/ \E p \in Procs : CreateRead(p)
    \/ \E p \in Procs : CreateInsert(p)
    \/ \E p \in Procs, fails \in BOOLEAN : CreateExpense(p, fails)
    \/ \E p \in Procs : UpdateInventory(p)
    \/ \E p \in Procs :
           \E fails \in Failures(IF calls[p].pc = "move"
                                    /\ calls[p].op = "addStock"
                                 THEN calls[p].invItem.purchasePrice ELSE 0) :
               InsertMovement(p, fails)

\* the stock ledger with the reads and writes of two calls interleaved
SpecStockConc == InitConc /\ [][NextConc]_vars

\* C3: in every state reachable by addStock, removeStock and adjustStock
\* calls, whatever the interleaving of their reads and writes, every
\* Inventory row has quantity >= 0.
C3_QuantityNeverNegative ==
    \A i \in 1..Len(inventory) : inventory[i].quantity >= 0

\* two removeStock calls on one row both passed the check against the same
\* stock and both completed: more was removed than the row ever held
C3_Witness ==
    /\ \A p \in Procs : calls[p].pc = "idle"
    /\ Len(stockMovements) = 2
    /\ \A k \in 1..2 : /\ stockMovements[k].actionType = "remove"
                       /\ stockMovements[k].inventoryId = 1
    /\ inventory = [SeededInventory EXCEPT ![1].quantity = 0]

----------------------------------------------------------------------------
(* Properties of the stock ledger *)

RECURSIVE SumQuantities(_)
SumQuantities(moves) ==
    IF moves = <<>> THEN 0
    ELSE Head(moves).quantity + SumQuantities(Tail(moves))

MovementsOf(productId) ==
    SelectSeq(stockMovements, LAMBDA m : m.productId = productId)

\* C2: after any sequence of createInventoryItem, updateInventoryItem,
\* addStock, removeStock and adjustStock calls, the quantities of a
\* product's StockMovement rows sum to its Inventory.quantity.
C2_MovementsSumToQuantity ==
    \A i \in 1..Len(inventory) :
        SumQuantities(MovementsOf(inventory[i].productId))
            = inventory[i].quantity

\* a stock call has been made: the step is that call
StockStep(op) == ncalls' = ncalls + 1 /\ last'.op = op

\* moves2 is moves1 with exactly one row appended, for productId, with the
\* given quantity and action type
AppendedOne(moves1, moves2, productId, quantity, actionType) ==
    /\ Len(moves2) = Len(moves1) + 1
    /\ SubSeq(moves2, 1, Len(moves1)) = moves1
    /\ moves2[Len(moves2)].productId = productId
    /\ moves2[Len(moves2)].quantity = quantity
    /\ moves2[Len(moves2)].actionType = actionType

\* the rows of the other products are the same in inv1 and inv2
OthersSame(inv1, inv2, productId) ==
    \A i \in 1..Len(inv1) :
        inv1[i].productId # productId => (i <= Len(inv2) /\ inv2[i] = inv1[i])

\* C4: removeStock(productId, qty) with qty greater than the product's
\* Inventory.quantity fails with the not-enough-stock error and changes
\* nothing: the Inventory rows and the StockMovement rows stay as they were.
C4_InsufficientStock ==
    [][ (StockStep("removeStock")
         /\ getInventoryItemByProductId(inventory, last'.id) # undefined
         /\ last'.data.quantity >
                getInventoryItemByProductId(inventory, last'.id).quantity)
        => /\ last'.res = "NotEnoughStock"
           /\ UNCHANGED <<inventory, stockMovements, expenses>>
      ]_vars

\* more than the stock of a product, which is not empty, was asked for
C4_Witness ==
    /\ last.op = "removeStock" /\ last.res = "NotEnoughStock"
    /\ last.orig.quantity > 0
    /\ last.data.quantity > last.orig.quantity

\* C8: addStock(productId, qty) followed by removeStock(productId, qty)
\* returns Inventory.quantity to its value before the addStock (0 when the
\* addStock created the row), and the two appended movements, +qty and
\* -qty, sum to 0.
C8_AddRemoveRoundTrip ==
    (last.op = "removeStock" /\ preInv # NoInv)
    => LET before == getInventoryItemByProductId(preInv, last.id)
           after  == getInventoryItemByProductId(inventory, last.id)
           n      == Len(stockMovements)
       IN  /\ last.res = "ok"
           /\ after.quantity =
                  (IF before = undefined THEN 0 ELSE before.quantity)
           /\ n >= 2
           /\ stockMovements[n - 1].productId = last.id
           /\ stockMovements[n].productId = last.id
           /\ stockMovements[n - 1].quantity = last.data.quantity
           /\ stockMovements[n].quantity = 0 - last.data.quantity
           /\ stockMovements[n - 1].quantity + stockMovements[n].quantity = 0

\* stock was added to a product that had some, and removed by the next call
C8_Witness ==
    /\ last.op = "removeStock" /\ last.res = "ok" /\ preInv # NoInv
    /\ getInventoryItemByProductId(preInv, last.id) # undefined
    /\ getInventoryItemByProductId(preInv, last.id).quantity > 0

\* C9: adjustStock(productId, newQuantity >= 0) sets Inventory.quantity to
\* newQuantity and appends exactly one movement of type adjust with
\* quantity newQuantity - previous quantity (0 for a row it creates), also
\* when that is 0; on an existing row lastRestockDate is refreshed only
\* when the quantity grows.
C9_AdjustStock ==
    [][ (StockStep("adjustStock") /\ last'.data.quantity >= 0)
        => LET before == getInventoryItemByProductId(inventory, last'.id)
               after  == getInventoryItemByProductId(inventory', last'.id)
               prev   == IF before = undefined THEN 0 ELSE before.quantity
               delta  == last'.data.quantity - prev
           IN  /\ last'.res = "ok"
               /\ after # undefined
               /\ after.quantity = last'.data.quantity
               /\ AppendedOne(stockMovements, stockMovements', last'.id,
                              delta, "adjust")
               /\ before # undefined
                  => /\ Len(inventory') = Len(inventory)
                     /\ after.lastRestockDate =
                            (IF delta > 0 THEN now ELSE before.lastRestockDate)
               /\ OthersSame(inventory, inventory', last'.id)
      ]_vars

\* an existing row was adjusted to the quantity it had, at a later instant
\* than its last restock: a movement of 0 is logged, the date is kept
C9_Witness ==
    /\ last.op = "adjustStock" /\ last.res = "ok"
    /\ last.orig # undefined
    /\ Len(stockMovements) > 0
    /\ stockMovements[Len(stockMovements)].quantity = 0
    /\ stockMovements[Len(stockMovements)].actionType = "adjust"
    /\ getInventoryItemByProductId(inventory, last.id).lastRestockDate # now

\* C10: addStock(productId, qty > 0) on a product without an Inventory row
\* creates the row (quantity 0, minThreshold 5); in all cases it raises
\* Inventory.quantity by exactly qty, sets lastRestockDate, and appends
\* exactly one movement with quantity +qty and type add.
C10_AddStock ==
    [][ (StockStep("addStock") /\ last'.data.quantity > 0)
        => LET before == getInventoryItemByProductId(inventory, last'.id)
               after  == getInventoryItemByProductId(inventory', last'.id)
               qty    == last'.data.quantity
           IN  /\ last'.res = "ok"
               /\ after # undefined
               /\ IF before = undefined
                  THEN /\ Len(inventory') = Len(inventory) + 1
                       /\ after.minThreshold = 5
                       /\ after.quantity = 0 + qty
                  ELSE /\ Len(inventory') = Len(inventory)
                       /\ after.quantity = before.quantity + qty
               /\ after.lastRestockDate = now
               /\ AppendedOne(stockMovements, stockMovements', last'.id,
                              qty, "add")
               /\ OthersSame(inventory, inventory', last'.id)
      ]_vars

\* stock was added to a product that had no row
C10_Witness ==
    /\ last.op = "addStock" /\ last.res = "ok"
    /\ last.orig = undefined
    /\ getInventoryItemByProductId(inventory, last.id).minThreshold = 5

\* stock was added to a row that existed, restocked at an earlier instant
C10_WitnessExisting ==
    /\ last.op = "addStock" /\ last.res = "ok"
    /\ last.orig # undefined
    /\ last.orig.lastRestockDate # now

----------------------------------------------------------------------------
(* The expense of a stock purchase *)

\* exps2 is exps1 with exactly one expense appended, of the given amount and
\* category
AppendedExpense(exps1, exps2, amount, category) ==
    /\ Len(exps2) = Len(exps1) + 1
    /\ SubSeq(exps2, 1, Len(exps1)) = exps1
    /\ exps2[Len(exps2)].amount = amount
    /\ exps2[Len(exps2)].category = category

\* the purchase price of a product's row before a call, 0 when the row has
\* none or is created by the call
PriceBefore(inv, productId) ==
    LET before == getInventoryItemByProductId(inv, productId)
    IN  IF before = undefined THEN 0 ELSE before.purchasePrice

\* C11 as stated: a successful addStock(productId, qty) creates exactly one
\* Expense with amount purchasePrice * qty and category supplies whenever the
\* inventory item has a positive purchasePrice, and no Expense when the
\* purchasePrice is absent or not positive.
C11_ExpenseWheneverPriced ==
    [][ (StockStep("addStock") /\ last'.res = "ok")
        => LET price == PriceBefore(inventory, last'.id)
           IN  IF price > 0
               THEN AppendedExpense(expenses, expenses',
                                    price * last'.data.quantity, "supplies")
               ELSE expenses' = expenses
      ]_vars

\* C11 as amended: a successful addStock(productId, qty) on an item with a
\* positive purchasePrice creates exactly one Expense with amount
\* purchasePrice * qty and category supplies unless the creation of the
\* expense fails, in which case it creates none; it creates no Expense when
\* the purchasePrice is absent or not positive.
C11_ExpenseUnlessFailed ==
    [][ (StockStep("addStock") /\ last'.res = "ok")
        => LET price == PriceBefore(inventory, last'.id)
           IN  IF price > 0 /\ ~ last'.noExpense
               THEN AppendedExpense(expenses, expenses',
                                    price * last'.data.quantity, "supplies")
               ELSE expenses' = expenses
      ]_vars

\* two units were added to an item priced 3 and the expense of 6 was created
C11_Witness ==
    /\ last.op = "addStock" /\ last.res = "ok" /\ ~ last.noExpense
    /\ last.orig # undefined /\ last.orig.purchasePrice = 3
    /\ last.data.quantity = 2
    /\ Len(expenses) > 0
    /\ expenses[Len(expenses)].amount = 6

\* stock was added to an item without a purchase price while an expense of
\* another purchase is stored
C11_WitnessUnpriced ==
    /\ last.op = "addStock" /\ last.res = "ok"
    /\ PriceBefore(inventory, last.id) = 0
    /\ Len(expenses) > 0

\* C12: when the creation of the Expense fails during addStock, the call
\* still returns its result, and the raised Inventory.quantity and the
\* appended StockMovement are stored; no Expense is stored.
C12_ExpenseFailureIsolated ==
    [][ (StockStep("addStock") /\ last'.data.quantity > 0 /\ last'.noExpense)
        => LET before == getInventoryItemByProductId(inventory, last'.id)
               after  == getInventoryItemByProductId(inventory', last'.id)
               qty    == last'.data.quantity
           IN  /\ last'.res = "ok"
               /\ before # undefined /\ before.purchasePrice > 0
               /\ after.quantity = before.quantity + qty
               /\ AppendedOne(stockMovements, stockMovements', last'.id,
                              qty, "add")
               /\ expenses' = expenses
      ]_vars

\* the expense of an addStock on a priced item failed
C12_Witness ==
    /\ last.op = "addStock" /\ last.res = "ok" /\ last.noExpense
    /\ last.orig.purchasePrice > 0
    /\ getInventoryItemByProductId(inventory, last.id).quantity
           = last.orig.quantity + last.data.quantity
    /\ stockMovements[Len(stockMovements)].actionType = "add"

----------------------------------------------------------------------------
(* Calls on rows that are not stored *)

\* C13: updateTransaction and deleteTransaction called with an id that is
\* not stored report a not-found outcome (undefined, false) and change no
\* Transaction row and no DailyStats row.
C13_UnknownTransaction ==
    [][ (ncalls' = ncalls + 1
         /\ last'.op \in {"updateTransaction", "deleteTransaction"}
         /\ \A t \in transactions : t.id # last'.id)
        => /\ last'.res = (IF last'.op = "updateTransaction" THEN "undefined"
                                                             ELSE "false")
           /\ UNCHANGED <<transactions, dailyStats>>
      ]_vars

\* an update that names amount, date and type was called with an id that is
\* not stored while a transaction and its stats row are
C13_Witness ==
    /\ last.op = "updateTransaction" /\ last.res = "undefined"
    /\ {"amount", "date", "type"} \subseteq DOMAIN last.data
    /\ transactions # {} /\ dailyStats # <<>>

\* a delete was called with an id that is not stored while a transaction is
C13_WitnessDelete ==
    /\ last.op = "deleteTransaction" /\ last.res = "false"
    /\ transactions # {} /\ dailyStats # <<>>

\* C14: removeStock on a product that has no Inventory row fails, with the
\* not-found error when the quantity is positive, creates no Inventory row
\* and writes no StockMovement.
C14_RemoveWithoutRow ==
    [][ (StockStep("removeStock")
         /\ \A i \in 1..Len(inventory) : inventory[i].productId # last'.id)
        => /\ last'.res # "ok"
           /\ last'.data.quantity > 0 => last'.res = "NotFound"
           /\ UNCHANGED <<inventory, stockMovements, expenses>>
      ]_vars

\* stock of a product without a row was asked for while another product has
\* a row and a movement
C14_Witness ==
    /\ last.op = "removeStock" /\ last.res = "NotFound"
    /\ \A i \in 1..Len(inventory) : inventory[i].productId # last.id
    /\ inventory # <<>> /\ stockMovements # <<>>

----------------------------------------------------------------------------
(* The HTTP interface of the transaction ledger (registerRoutes) *)

\* the transaction routes registerRoutes registers
Routes ==
    { <<"GET", "/transactions">>, <<"GET", "/transactions/byDate">>,
      <<"GET", "/transactions/byType/:type">>, <<"GET", "/transactions/:id">>,
      <<"POST", "/transactions">> }

\* the requests of the client on one transaction: the edit and delete
\* mutations of DailyEntries, and the read of the row
ClientRequests ==
    { <<"PATCH", "/transactions/:id">>, <<"DELETE", "/transactions/:id">>,
      <<"GET", "/transactions/:id">> }

RequestName(method, path) ==
    IF method = "PATCH" THEN "PATCH /transactions/:id"
    ELSE IF method = "DELETE" THEN "DELETE /transactions/:id"
    ELSE IF path = "/transactions/:id" THEN "GET /transactions/:id"
    ELSE "POST /transactions"

\* the body of the edit mutation of the client
ClientPatches == { "notes" :> "n" }

HttpFrame == UNCHANGED <<inventory, stockMovements, expenses, now, preInv,
                         calls>>

\* POST /transactions: storage.createTransaction, then 201 with the row
PostTransaction(body) ==
    /\ <<"POST", "/transactions">> \in Routes
    /\ nextTxId <= MaxTx
    /\ ncalls < MaxCalls
    /\ ncalls' = ncalls + 1
    /\ LET newTransaction ==
               insertedTransaction(withSubscriptionEnd(body, now),
                                   nextTxId, now)
       IN  /\ transactions' = transactions \cup {newTransaction}
           /\ nextTxId' = nextTxId + 1
           /\ dailyStats' = updateStatsForTransaction(dailyStats, newTransaction)
           /\ last' = Call(RequestName("POST", "/transactions"),
                           newTransaction.id, body, "201", undefined)
    /\ preStats' = NoStats
    /\ HttpFrame

\* GET /transactions/:id: storage.getTransaction, 404 without a row
GetTransaction(id) ==
    /\ <<"GET", "/transactions/:id">> \in Routes
    /\ ncalls < MaxCalls
    /\ ncalls' = ncalls + 1
    /\ LET transaction == getTransaction(transactions, id)
       IN  last' = Call(RequestName("GET", "/transactions/:id"), id, EmptyRec,
                        IF transaction = undefined THEN "404" ELSE "200",
                        transaction)
    /\ preStats' = NoStats
    /\ UNCHANGED <<transactions, nextTxId, dailyStats>>
    /\ HttpFrame

\* a request that matches no registered route: no handler runs, the storage
\* is not called, and the router answers 404
NoRoute(method, path, id, body) ==
    /\ <<method, path>> \notin Routes
    /\ ncalls < MaxCalls
    /\ ncalls' = ncalls + 1
    /\ last' = Call(RequestName(method, path), id, body, "404", undefined)
    /\ preStats' = NoStats
    /\ UNCHANGED <<transactions, nextTxId, dailyStats>>
    /\ HttpFrame

NextHttp ==
    \/ \E body \in TxInputs : PostTransaction(body)
    \/ \E id \in TxIds : GetTransaction(id)
    \/ \E r \in ClientRequests, id \in TxIds :
           \E body \in (IF r[1] = "PATCH" THEN ClientPatches \cup TxPatches
                                          ELSE {EmptyRec}) :
               NoRoute(r[1], r[2], id, body)

\* the transaction ledger behind its HTTP routes
SpecHttp == Init /\ [][NextHttp]_vars

\* C15: PATCH /transactions/:id and DELETE /transactions/:id perform the
\* update, respectively the delete, of the ledger with its DailyStats
\* reconciliation on a stored id, and answer 404 when the id is not stored.
C15_PatchDeleteServed ==
    [][ (ncalls' = ncalls + 1
         /\ last'.op \in {"PATCH /transactions/:id",
                          "DELETE /transactions/:id"})
        => LET stored == getTransaction(transactions, last'.id)
           IN  IF stored = undefined
               THEN last'.res = "404" /\ UNCHANGED <<transactions, dailyStats>>
               ELSE IF last'.op = "DELETE /transactions/:id"
               THEN /\ last'.res # "404"
                    /\ transactions' = transactions \ {stored}
                    /\ dailyStats' = removeStatsForTransaction(dailyStats,
                                                               stored)
               ELSE LET updated == setColumns(stored,
                                       patchWithSubscriptionEnd(last'.data,
                                                                stored, now))
                    IN  /\ last'.res # "404"
                        /\ transactions' =
                               (transactions \ {stored}) \cup {updated}
                        /\ dailyStats' =
                               IF Has(last'.data, "amount")
                                  \/ Has(last'.data, "date")
                                  \/ Has(last'.data, "type")
                               THEN reconcile(dailyStats, stored, updated)
                               ELSE dailyStats
      ]_vars

----------------------------------------------------------------------------
(* The end date of a transaction patched to a subscription *)

\* C17: updateTransaction with patch.type = subscription and no end date in
\* the patch derives subscriptionEndDate (patch.date, else the original
\* date, plus 1 month) only when the stored transaction has no end date; an
\* end date that is already stored is left unchanged.
C17_KeepsStoredEndDate ==
    [][ (ncalls' = ncalls + 1
         /\ last'.op = "updateTransaction" /\ last'.res = "ok"
         /\ Has(last'.data, "type") /\ last'.data.type = "subscription"
         /\ ~ Has(last'.data, "subscriptionEndDate"))
        => LET orig    == last'.orig
               updated == getTransaction(transactions', last'.id)
           IN  IF orig.subscriptionEndDate = NoDate
               THEN updated.subscriptionEndDate =
                        addMonths(IF Has(last'.data, "date")
                                  THEN last'.data.date ELSE orig.date, 1)
               ELSE updated.subscriptionEndDate = orig.subscriptionEndDate
      ]_vars

----------------------------------------------------------------------------
(* Ledger calls in progress: every await of a call is a step of its own *)

MaxConcCalls == 2   \* interleaved ledger calls in one behaviour

\* a ledger call of a process: its name, position and arguments, the
\* transaction it found (tx), the transaction whose contribution it adds
\* (adding), the DailyStats row it read (read), the object it hands to
\* upsertDailyStats (stats), the row upsertDailyStats found (existingStats)
\* and, once it has ended, its outcome
TxCall(op, pc, id, data, tx, adding, phase, read, stats, existingStats, res) ==
    [op |-> op, pc |-> pc, id |-> id, data |-> data, tx |-> tx,
     adding |-> adding, phase |-> phase, read |-> read, stats |-> stats,
     existingStats |-> existingStats, res |-> res]

IdleTx == TxCall("none", "idle", 0, EmptyRec, undefined, undefined, "none",
                 undefined, undefined, undefined, "none")

\* a transaction created earlier, with the stats row its creation wrote
SeededTransaction ==
    insertedTransaction([type |-> "entry", amount |-> 2], 1, ClockDates[1])

InitTxConc ==
    /\ transactions = {SeededTransaction}
    /\ nextTxId = 2
    /\ dailyStats = updateStatsForTransaction(<<>>, SeededTransaction)
    /\ inventory = <<>>
    /\ stockMovements = <<>>
    /\ expenses = <<>>
    /\ now = ClockDates[1]
    /\ last = NoCall
    /\ preStats = NoStats
    /\ preInv = NoInv
    /\ ncalls = 0
    /\ calls = [p \in Procs |-> IdleTx]

TxConcFrame == UNCHANGED <<inventory, stockMovements, expenses, now, preStats,
                           preInv>>

\* the insert of a DailyStats row with no regard for the rows stored
violatesUniqueDate_never(ds, dayStart) == FALSE

\* the unique constraint of DailyStats.date: the insert of a second row for
\* a day is refused by the store
violatesUniqueDate(ds, dayStart) ==
    \E i \in 1..Len(ds) : ds[i].date = dayStart

\* the call of process p ends with outcome res
FinishTx(p, res) ==
    /\ calls' = [calls EXCEPT ![p].pc = "done", ![p].res = res]
    /\ last' = Call(calls[p].op, calls[p].id, calls[p].data, res, calls[p].tx)

CanBegin(p) ==
    /\ calls[p].pc \in {"idle", "done"}
    /\ ncalls < MaxConcCalls

\* createTransaction up to the end of db.insert(transactions)
BeginCreate(p, transaction) ==
    /\ CanBegin(p)
    /\ ncalls' = ncalls + 1
    /\ LET newTransaction ==
               insertedTransaction(withSubscriptionEnd(transaction, now),
                                   nextTxId, now)
       IN  /\ transactions' = transactions \cup {newTransaction}
           /\ nextTxId' = nextTxId + 1
           /\ calls' = [calls EXCEPT ![p] =
                  TxCall("createTransaction", "stats_read", newTransaction.id,
                         transaction, undefined, newTransaction, "add",
                         undefined, undefined, undefined, "none")]
    /\ UNCHANGED <<dailyStats, last>>
    /\ TxConcFrame

\* updateTransaction / deleteTransaction: await this.getTransaction(id)
BeginChange(p, op, id, data) ==
    /\ CanBegin(p)
    /\ ncalls' = ncalls + 1
    /\ LET found == getTransaction(transactions, id)
       IN  IF found = undefined
           THEN LET res == IF op = "updateTransaction" THEN "undefined"
                                                       ELSE "false"
                IN  /\ calls' = [calls EXCEPT ![p] =
                           TxCall(op, "done", id, data, undefined, undefined,
                                  "none", undefined, undefined, undefined,
                                  res)]
                    /\ last' = Call(op, id, data, res, undefined)
           ELSE /\ calls' = [calls EXCEPT ![p] =
                       TxCall(op, "tx_write", id, data, found, undefined,
                              "none", undefined, undefined, undefined,
                              "none")]
                /\ UNCHANGED last
    /\ UNCHANGED <<transactions, nextTxId, dailyStats>>
    /\ TxConcFrame

\* updateTransaction: await db.update(transactions).set(data).where(id)
TxUpdate(p) ==
    /\ calls[p].pc = "tx_write" /\ calls[p].op = "updateTransaction"
    /\ LET row   == getTransaction(transactions, calls[p].id)
           patch == patchWithSubscriptionEnd(calls[p].data, calls[p].tx, now)
           updatedTransaction == setColumns(row, patch)
       IN  IF row = undefined
           THEN FinishTx(p, "undefined") /\ UNCHANGED transactions
           ELSE /\ transactions' =
                       (transactions \ {row}) \cup {updatedTransaction}
                /\ IF touchesStats(calls[p].data)
                   THEN /\ calls' = [calls EXCEPT
                               ![p].pc = "sub_read",
                               ![p].adding = updatedTransaction]
                        /\ UNCHANGED last
                   ELSE FinishTx(p, "ok")
    /\ UNCHANGED <<nextTxId, dailyStats, ncalls>>
    /\ TxConcFrame

\* deleteTransaction: await db.delete(transactions).where(id)
TxDelete(p) ==
    /\ calls[p].pc = "tx_write" /\ calls[p].op = "deleteTransaction"
    /\ LET row == getTransaction(transactions, calls[p].id)
       IN  IF row = undefined
           THEN FinishTx(p, "false") /\ UNCHANGED transactions
           ELSE /\ transactions' = transactions \ {row}
                /\ calls' = [calls EXCEPT ![p].pc = "sub_read"]
                /\ UNCHANGED last
    /\ UNCHANGED <<nextTxId, dailyStats, ncalls>>
    /\ TxConcFrame

\* updateTransaction / deleteTransaction: await this.getDailyStats of the
\* original day, and the subtraction when there is a row
SubRead(p) ==
    /\ calls[p].pc = "sub_read"
    /\ LET found == getDailyStats(dailyStats, startOfDay(calls[p].tx.date))
       IN  IF found # undefined
           THEN /\ calls' = [calls EXCEPT
                       ![p].pc = "upsert_read", ![p].phase = "sub",
                       ![p].read = found,
                       ![p].stats = subtractContribution(found, calls[p].tx)]
                /\ UNCHANGED last
           ELSE IF calls[p].op = "updateTransaction"
                THEN /\ calls' = [calls EXCEPT ![p].pc = "stats_read",
                                               ![p].phase = "add"]
                     /\ UNCHANGED last
                ELSE FinishTx(p, "true")
    /\ UNCHANGED <<transactions, nextTxId, dailyStats, ncalls>>
    /\ TxConcFrame

\* updateStatsForTransaction: await this.getDailyStats, and the addition
StatsRead(p) ==
    /\ calls[p].pc = "stats_read"
    /\ LET transactionDate == startOfDay(calls[p].adding.date)
           found == getDailyStats(dailyStats, transactionDate)
           stats == IF found = undefined THEN zeroStats(transactionDate)
                                         ELSE found
       IN  calls' = [calls EXCEPT
               ![p].pc = "upsert_read", ![p].phase = "add",
               ![p].read = found,
               ![p].stats = addContribution(stats, calls[p].adding)]
    /\ UNCHANGED <<transactions, nextTxId, dailyStats, last, ncalls>>
    /\ TxConcFrame

\* upsertDailyStats: await this.getDailyStats(dayStart)
UpsertRead(p) ==
    /\ calls[p].pc = "upsert_read"
    /\ calls' = [calls EXCEPT
           ![p].pc = "upsert_write",
           ![p].existingStats =
               getDailyStats(dailyStats, startOfDay(calls[p].stats.date))]
    /\ UNCHANGED <<transactions, nextTxId, dailyStats, last, ncalls>>
    /\ TxConcFrame

\* upsertDailyStats: await db.update(dailyStats) / db.insert(dailyStats),
\* and what the call does after it
UpsertWrite(p) ==
    /\ calls[p].pc = "upsert_write"
    /\ LET stats    == calls[p].stats
           dayStart == startOfDay(stats.date)
           goOn     == IF calls[p].op = "updateTransaction"
                          /\ calls[p].phase = "sub"
                       THEN /\ calls' = [calls EXCEPT ![p].pc = "stats_read"]
                            /\ UNCHANGED last
                       ELSE FinishTx(p, IF calls[p].op = "deleteTransaction"
                                        THEN "true" ELSE "ok")
       IN  IF calls[p].existingStats # undefined
           THEN /\ dailyStats' = upsertUpdate(dailyStats,
                                              calls[p].existingStats, stats)
                /\ goOn
           ELSE IF violatesUniqueDate(dailyStats, dayStart)
           THEN /\ FinishTx(p, "error")
                /\ UNCHANGED dailyStats
           ELSE /\ dailyStats' = upsertInsert(dailyStats, stats)
                /\ goOn
    /\ UNCHANGED <<transactions, nextTxId, ncalls>>
    /\ TxConcFrame

\* request bodies of the interleaved creates: one on the day of the clock,
\* one on the next day
ConcTxInputs ==
    { [type |-> "entry", amount |-> 1],
      [type |-> "cafe", amount |-> 1, date |-> <<2024, 2, 1, 0>>] }

\* patches of the interleaved updates
ConcTxPatches ==
    { [amount |-> 1], [date |-> <<2024, 2, 1, 0>>], [notes |-> "n"] }

NextTxConc ==
    \/ \E p \in Procs, transaction \in ConcTxInputs :
           BeginCreate(p, transaction)
    \/ \E p \in Procs, id \in TxIds, data \in ConcTxPatches :
           BeginChange(p, "updateTransaction", id, data)
    \/ \E p \in Procs, id \in TxIds :
           BeginChange(p, "deleteTransaction", id, EmptyRec)
    \/ \E p \in Procs : TxUpdate(p)
    \/ \E p \in Procs : TxDelete(p)
    \/ \E p \in Procs : SubRead(p)
    \/ \E p \in Procs : StatsRead(p)
    \/ \E p \in Procs : UpsertRead(p)
    \/ \E p \in Procs : UpsertWrite(p)

\* the transaction ledger with the reads and writes of two calls interleaved
SpecTxConc == InitTxConc /\ [][NextTxConc]_vars

----------------------------------------------------------------------------
(* Properties of the interleaved ledger *)

\* process p completes its upsertDailyStats with this step
WritesStats(p) ==
    calls[p].pc = "upsert_write" /\ calls'[p].pc # "upsert_write"

CountFields == {"entriesCount", "subscriptionsCount", "cafeOrdersCount"}

TotalCount(r) == r.entriesCount + r.subscriptionsCount + r.cafeOrdersCount

\* C16: when two createTransaction calls for one day have both read the
\* same DailyStats snapshot of a day in step with the ledger, and the
\* second one writes after the first has written, the write of the second
\* replaces the row by snapshot + its own transaction: the earlier delta is
\* overwritten, and the day's totalRevenue and counts are smaller than the
\* sum and number of the day's stored transactions.
C16_LostUpdate ==
    [][ \A p \in Procs, q \in Procs :
          LET tp  == calls[p].adding
              tq  == calls[q].adding
              day == startOfDay(tp.date)
              row == getDailyStats(dailyStats, day)
              others == StoredOn(day, TransactionTypes) \ {tp, tq}
          IN  (/\ p # q
               /\ WritesStats(p)
               /\ calls[p].op = "createTransaction"
               /\ calls[q].op = "createTransaction"
               /\ calls[q].pc = "done" /\ calls[q].res = "ok"
               /\ startOfDay(tq.date) = day
               /\ calls[p].read # undefined
               /\ calls[q].read = calls[p].read
               /\ {tp, tq} \subseteq transactions
               /\ calls[p].read.totalRevenue = SumAmounts(others)
               /\ TotalCount(calls[p].read) = Cardinality(others)
               /\ SameValues(row, calls[q].stats))
              => LET row2 == getDailyStats(dailyStats', day)
                 IN  /\ calls'[p].res = "ok"
                     /\ SameValues(row2, calls[p].stats)
                     /\ row2.totalRevenue =
                            calls[p].read.totalRevenue + tp.amount
                     /\ row2.totalRevenue <
                            SumAmounts(StoredOn(day, TransactionTypes)')
                     /\ TotalCount(row2) <
                            Cardinality(StoredOn(day, TransactionTypes)')
      ]_vars

\* two creates for the day of the seeded transaction have both completed:
\* three transactions are stored on the day, the row counts two
C16_Witness ==
    /\ \A p \in Procs : /\ calls[p].pc = "done" /\ calls[p].res = "ok"
                        /\ calls[p].op = "createTransaction"
                        /\ startOfDay(calls[p].adding.date)
                               = startOfDay(SeededTransaction.date)
    /\ calls[1].read = calls[2].read
    /\ LET day == startOfDay(SeededTransaction.date)
           row == getDailyStats(dailyStats, day)
       IN  /\ Cardinality(StoredOn(day, TransactionTypes)) = 3
           /\ row.entriesCount = 2
           /\ row.totalRevenue < SumAmounts(StoredOn(day, TransactionTypes))

\* C18: in every reachable state, with the DailyStats reads and writes of
\* createTransaction, updateTransaction and deleteTransaction calls
\* interleaved, every DailyStats row has
\* totalRevenue = entriesRevenue + subscriptionsRevenue + cafeRevenue.
C18_TotalIsSumOfCategories ==
    \A i \in 1..Len(dailyStats) :
        dailyStats[i].totalRevenue =
            dailyStats[i].entriesRevenue + dailyStats[i].subscriptionsRevenue
                + dailyStats[i].cafeRevenue

\* an update and a delete of the seeded transaction were interleaved and
\* have both completed: the row is out of step with the ledger
C18_Witness ==
    /\ \A p \in Procs : calls[p].pc = "done"
    /\ {calls[p].op : p \in Procs} = {"updateTransaction", "deleteTransaction"}
    /\ \A p \in Procs : calls[p].res \in {"ok", "true"}
    /\ transactions = {}
    /\ \E i \in 1..Len(dailyStats) : dailyStats[i].totalRevenue > 0

\* C19: when deleteTransaction or updateTransaction subtracts a transaction
\* from the DailyStats row it read, the written count is max(0, count - 1)
\* while totalRevenue and the revenue of the type are lowered by the full
\* amount; every count field is >= 0 after every step.
C19_CountsClampedRevenueNot ==
    [][ /\ \A i \in 1..Len(dailyStats') :
               \A f \in CountFields : dailyStats'[i][f] >= 0
        /\ \A p \in Procs :
               (WritesStats(p) /\ calls[p].phase = "sub")
               => LET tx   == calls[p].tx
                      read == calls[p].read
                      row2 == getDailyStats(dailyStats', startOfDay(tx.date))
                      c    == CountField(tx.type)
                  IN  /\ row2.totalRevenue = read.totalRevenue - tx.amount
                      /\ row2[RevenueField(tx.type)] =
                             read[RevenueField(tx.type)] - tx.amount
                      /\ row2[c] = (IF read[c] >= 1 THEN read[c] - 1 ELSE 0)
      ]_vars

\* more was subtracted than the row held: a row has a negative total and a
\* negative entries revenue, and its count stands at 0
C19_Witness ==
    \E i \in 1..Len(dailyStats) :
        /\ dailyStats[i].totalRevenue < 0
        /\ dailyStats[i].entriesRevenue < 0
        /\ dailyStats[i].entriesCount = 0

\* C20: in every reachable state there is at most one DailyStats row per
\* calendar day, also when two createTransaction calls for a day without a
\* row both find no row in upsertDailyStats before either inserts.
C20_OneRowPerDay ==
    \A i \in 1..Len(dailyStats), j \in 1..Len(dailyStats) :
        dailyStats[i].date = dailyStats[j].date => i = j

\* two creates for a day without a row both found no row in
\* upsertDailyStats; one has inserted, the insert of the other was refused
C20_Witness ==
    /\ \A p \in Procs : /\ calls[p].op = "createTransaction"
                        /\ calls[p].pc = "done"
                        /\ calls[p].read = undefined
                        /\ calls[p].existingStats = undefined
    /\ {calls[p].res : p \in Procs} = {"ok", "error"}
    /\ Len(dailyStats) = 2

----------------------------------------------------------------------------
(* Reports: the stats routes and the net revenue *)

\* endOfDay(date): the same calendar day at its last instant
endOfDay(date) == <<date[1], date[2], date[3], 9>>

startOfMonth(date) == <<date[1], date[2], 1, 0>>

endOfMonth(date) == <<date[1], date[2], DaysInMonth(date[1], date[2]), 9>>

\* a < b on instants
DateLT(a, b) ==
    \/ a[1] < b[1]
    \/ a[1] = b[1] /\ a[2] < b[2]
    \/ a[1] = b[1] /\ a[2] = b[2] /\ a[3] < b[3]
    \/ a[1] = b[1] /\ a[2] = b[2] /\ a[3] = b[3] /\ a[4] < b[4]

\* gte(column, start) and lte(column, end)
Between(date, start, end) == ~ DateLT(date, start) /\ ~ DateLT(end, date)

\* getDailyStatsByRange comparing with startDate itself
getDailyStatsByRange_nofloor(ds, startDate, endDate) ==
    SortSeq(SelectSeq(ds, LAMBDA r : Between(r.date, startDate,
                                             endOfDay(endDate))),
            LAMBDA r1, r2 : DateLT(r1.date, r2.date))

\* getDailyStatsByRange(startDate, endDate): the rows dated from
\* startOfDay(startDate) to endOfDay(endDate), ordered by date ascending
getDailyStatsByRange(ds, startDate, endDate) ==
    LET start == startOfDay(startDate)
        end   == endOfDay(endDate)
    IN  SortSeq(SelectSeq(ds, LAMBDA r : Between(r.date, start, end)),
                LAMBDA r1, r2 : DateLT(r1.date, r2.date))

\* getExpensesByDateRange comparing with endDate itself
getExpensesByDateRange_noceil(exps, startDate, endDate) ==
    SortSeq(SelectSeq(exps, LAMBDA e : Between(e.date, startOfDay(startDate),
                                               endDate)),
            LAMBDA e1, e2 : DateLT(e2.date, e1.date))

\* getExpensesByDateRange(startDate, endDate): the expenses dated from
\* startOfDay(startDate) to endOfDay(endDate), ordered by date descending
getExpensesByDateRange(exps, startDate, endDate) ==
    LET start == startOfDay(startDate)
        end   == endOfDay(endDate)
    IN  SortSeq(SelectSeq(exps, LAMBDA e : Between(e.date, start, end)),
                LAMBDA e1, e2 : DateLT(e2.date, e1.date))

\* the object GET /stats/daily answers with for a day without a row, with
\* the count of entries set
zeroStub_onecount(date) ==
    [date |-> date,
     totalRevenue |-> 0, entriesRevenue |-> 0, entriesCount |-> 1,
     subscriptionsRevenue |-> 0, subscriptionsCount |-> 0,
     cafeRevenue |-> 0, cafeOrdersCount |-> 0]

\* the object GET /stats/daily answers with for a day without a row
zeroStub(date) ==
    [date |-> date,
     totalRevenue |-> 0, entriesRevenue |-> 0, entriesCount |-> 0,
     subscriptionsRevenue |-> 0, subscriptionsCount |-> 0,
     cafeRevenue |-> 0, cafeOrdersCount |-> 0]

\* stats.reduce((sum, day) => sum + day.totalRevenue, 0)
RECURSIVE reduceTotalRevenue(_)
reduceTotalRevenue(stats) ==
    IF stats = <<>> THEN 0
    ELSE Head(stats).totalRevenue + reduceTotalRevenue(Tail(stats))

\* expenses.reduce((sum, expense) => sum + Number(expense.amount), 0)
RECURSIVE reduceAmounts(_)
reduceAmounts(exps) ==
    IF exps = <<>> THEN 0
    ELSE Head(exps).amount + reduceAmounts(Tail(exps))

\* expenses.reduce((breakdown, expense) => { breakdown[category] =
\* (breakdown[category] || 0) + Number(expense.amount) }, {})
RECURSIVE reduceBreakdown(_, _)
reduceBreakdown(breakdown, exps) ==
    IF exps = <<>> THEN breakdown
    ELSE LET category == Head(exps).category
             sofar    == IF category \in DOMAIN breakdown
                         THEN breakdown[category] ELSE 0
         IN  reduceBreakdown(
                 [c \in DOMAIN breakdown \cup {category} |->
                     IF c = category THEN sofar + Head(exps).amount
                                     ELSE breakdown[c]],
                 Tail(exps))

\* the body GET /stats/net-revenue answers with
netRevenueResponse(ds, exps, startDate, endDate) ==
    LET stats         == getDailyStatsByRange(ds, startDate, endDate)
        totalRevenue  == reduceTotalRevenue(stats)
        found         == getExpensesByDateRange(exps, startDate, endDate)
        totalExpenses == reduceAmounts(found)
    IN  [startDate        |-> startDate,
         endDate          |-> endDate,
         totalRevenue     |-> totalRevenue,
         totalExpenses    |-> totalExpenses,
         netRevenue       |-> totalRevenue - totalExpenses,
         expenseBreakdown |-> reduceBreakdown(EmptyRec, found)]

ExpenseCategories == {"supplies", "rent"}

\* request bodies of POST /expenses
ExpenseInputs ==
    { [amount |-> a, category |-> c, date |-> d] :
        a \in {1, 2}, c \in ExpenseCategories,
        d \in { <<2024, 1, 31, 1>>, <<2024, 2, 1, 1>> } } \
    { [amount |-> 2, category |-> "rent", date |-> <<2024, 1, 31, 1>>],
      [amount |-> 1, category |-> "supplies", date |-> <<2024, 2, 1, 1>>] }

\* request bodies of POST /transactions in the report scenarios
ReportTxInputs ==
    { [type |-> "entry", amount |-> 1],
      [type |-> "cafe", amount |-> 2, date |-> <<2024, 2, 1, 0>>] }

\* the values parseISO gives for the date parameters of the queries
QueryDates == { <<2024, 1, 31, 1>>, <<2024, 2, 1, 0>>, <<2024, 2, 2, 0>> }

\* the query of a range route: both dates, or neither
RangeQueries ==
    { [startDate |-> a, endDate |-> b] : a \in QueryDates, b \in QueryDates }
    \cup {EmptyRec}

\* startDate and endDate of a range route: the parameters, or the current
\* calendar month
QueryRange(query, clock) ==
    IF Has(query, "startDate") /\ Has(query, "endDate")
    THEN [startDate |-> query.startDate, endDate |-> query.endDate]
    ELSE [startDate |-> startOfMonth(clock), endDate |-> endOfMonth(clock)]

ReportFrame == UNCHANGED <<inventory, stockMovements, now, preStats, preInv,
                           calls>>

\* POST /expenses: storage.createExpense
PostExpense(body) ==
    /\ ncalls < MaxCalls
    /\ ncalls' = ncalls + 1
    /\ expenses' = Append(expenses,
                          [id |-> Len(expenses) + 1, amount |-> body.amount,
                           category |-> body.category, date |-> body.date])
    /\ last' = Call("POST /expenses", Len(expenses) + 1, body, "201",
                    undefined)
    /\ UNCHANGED <<transactions, nextTxId, dailyStats>>
    /\ ReportFrame

\* GET /stats/daily: the row of the day, or the zeroed object
GetDailyStats(query) ==
    /\ ncalls < MaxCalls
    /\ ncalls' = ncalls + 1
    /\ LET date  == IF Has(query, "date") THEN query.date ELSE now
           stats == getDailyStats(dailyStats, date)
       IN  last' = Call("GET /stats/daily", 0, query, "200",
                        IF stats = undefined THEN zeroStub(date) ELSE stats)
    /\ UNCHANGED <<transactions, nextTxId, dailyStats, expenses>>
    /\ ReportFrame

\* GET /stats/range: storage.getDailyStatsByRange
GetStatsRange(query) ==
    /\ ncalls < MaxCalls
    /\ ncalls' = ncalls + 1
    /\ LET range == QueryRange(query, now)
       IN  last' = Call("GET /stats/range", 0, range, "200",
                        getDailyStatsByRange(dailyStats, range.startDate,
                                             range.endDate))
    /\ UNCHANGED <<transactions, nextTxId, dailyStats, expenses>>
    /\ ReportFrame

\* GET /stats/net-revenue
GetNetRevenue(query) ==
    /\ ncalls < MaxCalls
    /\ ncalls' = ncalls + 1
    /\ LET range == QueryRange(query, now)
       IN  last' = Call("GET /stats/net-revenue", 0, range, "200",
                        netRevenueResponse(dailyStats, expenses,
                                           range.startDate, range.endDate))
    /\ UNCHANGED <<transactions, nextTxId, dailyStats, expenses>>
    /\ ReportFrame

NextReport ==
    \/ \E body \in ReportTxInputs : PostTransaction(body)
    \/ \E body \in ExpenseInputs : PostExpense(body)
    \/ \E query \in Opt("date", QueryDates) : GetDailyStats(query)
    \/ \E query \in RangeQueries : GetStatsRange(query)
    \/ \E query \in RangeQueries : GetNetRevenue(query)

\* transactions and expenses are posted and the reports are read
SpecReport == Init /\ [][NextReport]_vars

----------------------------------------------------------------------------
(* Properties of the reports *)

\* the calendar day of an instant, as a number growing with the calendar
DayNumber(date) == (date[1] * 12 + date[2]) * 31 + date[3]

\* the positions of the DailyStats rows of the calendar day of date
RowsOfDay(date) ==
    { i \in 1..Len(dailyStats) :
        DayNumber(dailyStats[i].date) = DayNumber(date) }

\* C21: GET /stats/daily for a day that has a DailyStats row answers with
\* that row; for a day without one it answers with an object whose revenue
\* and count fields are all 0; in both cases no table changes, so the
\* zeroed object is not stored.
C21_DailyStatsRead ==
    [][StockStep("GET /stats/daily") =>
        LET date == IF Has(last'.data, "date") THEN last'.data.date ELSE now
        IN  /\ dailyStats' = dailyStats
            /\ transactions' = transactions
            /\ expenses' = expenses
            /\ IF RowsOfDay(date) # {}
               THEN \E i \in RowsOfDay(date) : last'.orig = dailyStats[i]
               ELSE \A f \in StatFields : last'.orig[f] = 0]_vars

\* the last request read a day without a row, was answered with zeros, and
\* the table holds a row of another day and nothing else
C21_Witness ==
    /\ last.op = "GET /stats/daily"
    /\ Has(last.data, "date")
    /\ RowsOfDay(last.data.date) = {}
    /\ ~ Has(last.orig, "id")
    /\ last.orig.totalRevenue = 0
    /\ Len(dailyStats) = 1

\* the calendar day of date lies from the day of start to the day of end
DayWithin(date, start, end) ==
    /\ DayNumber(start) <= DayNumber(date)
    /\ DayNumber(date) <= DayNumber(end)

\* C22: getDailyStatsByRange(start, end) returns exactly the stored
\* DailyStats rows whose day lies from the day of start to the day of end,
\* both included, each once and in ascending date order; a day without a row
\* has no element in the result, and no row is created.
C22_RangeIsStoredRows ==
    [][StockStep("GET /stats/range") =>
        LET start   == last'.data.startDate
            end     == last'.data.endDate
            result  == last'.orig
            inRange == { i \in 1..Len(dailyStats) :
                            DayWithin(dailyStats[i].date, start, end) }
        IN  /\ dailyStats' = dailyStats
            /\ \A i \in inRange :
                   \E j \in 1..Len(result) : result[j] = dailyStats[i]
            /\ \A j \in 1..Len(result) :
                   \E i \in inRange : result[j] = dailyStats[i]
            /\ Len(result) = Cardinality(inRange)
            /\ \A j \in 1..(Len(result) - 1) :
                   DayNumber(result[j].date) < DayNumber(result[j + 1].date)]_vars

\* the last request asked for a range starting in the course of a day and
\* was answered with the rows of two days, stored in the other order
C22_Witness ==
    /\ last.op = "GET /stats/range"
    /\ last.data.startDate = <<2024, 1, 31, 1>>
    /\ Len(dailyStats) = 2
    /\ DayNumber(dailyStats[2].date) < DayNumber(dailyStats[1].date)
    /\ last.orig = <<dailyStats[2], dailyStats[1]>>

\* the sum of f[i] over the i of S
RECURSIVE SumOver(_, _)
SumOver(f, S) ==
    IF S = {} THEN 0
    ELSE LET i == CHOOSE x \in S : TRUE
         IN  f[i] + SumOver(f, S \ {i})

\* C23: GET /stats/net-revenue answers with totalRevenue = the sum of the
\* totalRevenue of the DailyStats rows in the range, totalExpenses = the sum
\* of the amounts of the expenses dated in the range, netRevenue = their
\* difference, and expenseBreakdown = the sums of those amounts per
\* category, whose values add up to totalExpenses.
C23_NetRevenue ==
    [][StockStep("GET /stats/net-revenue") =>
        LET start    == last'.data.startDate
            end      == last'.data.endDate
            body     == last'.orig
            rows     == { i \in 1..Len(dailyStats) :
                             DayWithin(dailyStats[i].date, start, end) }
            spent    == { i \in 1..Len(expenses) :
                             DayWithin(expenses[i].date, start, end) }
            spentOn(c) == { i \in spent : expenses[i].category = c }
            revenue  == [i \in rows |-> dailyStats[i].totalRevenue]
            amounts  == [i \in spent |-> expenses[i].amount]
        IN  /\ body.totalRevenue = SumOver(revenue, rows)
            /\ body.totalExpenses = SumOver(amounts, spent)
            /\ body.netRevenue = body.totalRevenue - body.totalExpenses
            /\ DOMAIN body.expenseBreakdown =
                   { expenses[i].category : i \in spent }
            /\ \A c \in DOMAIN body.expenseBreakdown :
                   body.expenseBreakdown[c] = SumOver(amounts, spentOn(c))
            /\ SumOver(body.expenseBreakdown, DOMAIN body.expenseBreakdown)
                   = body.totalExpenses]_vars

\* the last request asked for the net revenue up to a day on which an
\* expense is dated later than the end instant, and a day of the range has
\* revenue: the answer counts both
C23_Witness ==
    /\ last.op = "GET /stats/net-revenue"
    /\ last.data.endDate = <<2024, 2, 1, 0>>
    /\ Len(expenses) = 1
    /\ expenses[1].date = <<2024, 2, 1, 1>>
    /\ last.orig.totalExpenses = expenses[1].amount
    /\ last.orig.totalRevenue > 0
    /\ last.orig.netRevenue = last.orig.totalRevenue - expenses[1].amount

----------------------------------------------------------------------------
(* The rows a ledger call may touch *)

\* the calendar days whose DailyStats row a completed call may have written:
\* the day of the created or deleted transaction, the original and the new
\* day of an updated one, none for a call that found no transaction
DaysOfCall(call, txs) ==
    IF call.op = "createTransaction"
    THEN { DayNumber(t.date) : t \in { x \in txs : x.id = call.id } }
    ELSE IF call.op = "deleteTransaction" /\ call.res = "true"
    THEN { DayNumber(call.orig.date) }
    ELSE IF call.op = "updateTransaction" /\ call.res = "ok"
    THEN { DayNumber(call.orig.date) }
         \cup { DayNumber(t.date) : t \in { x \in txs : x.id = call.id } }
    ELSE {}

\* C24: createTransaction and deleteTransaction change at most the one
\* DailyStats row of the day of their transaction, updateTransaction at most
\* the rows of the original day and of the new day; every other row is the
\* same after the call, and no row of another day appears or disappears.
C24_OtherDaysUntouched ==
    [][ncalls' = ncalls + 1 =>
        LET days == DaysOfCall(last', transactions')
        IN  /\ last'.op \in {"createTransaction", "deleteTransaction"}
                   => Cardinality(days) <= 1
            /\ \A i \in 1..Len(dailyStats) :
                   DayNumber(dailyStats[i].date) \notin days
                       => /\ i <= Len(dailyStats')
                          /\ dailyStats'[i] = dailyStats[i]
            /\ \A i \in 1..Len(dailyStats') :
                   DayNumber(dailyStats'[i].date) \notin days
                       => i <= Len(dailyStats)]_vars

\* the amount of a transaction was changed on its day while the row of
\* another day holds revenue
C24_Witness ==
    /\ last.op = "updateTransaction" /\ last.res = "ok"
    /\ Has(last.data, "amount") /\ last.data.amount # last.orig.amount
    /\ ~ Has(last.data, "date")
    /\ \E i \in 1..Len(dailyStats) :
           /\ DayNumber(dailyStats[i].date) # DayNumber(last.orig.date)
           /\ dailyStats[i].totalRevenue > 0

----------------------------------------------------------------------------
(* The movement log and the argument checks of the stock calls *)

StockOps == {"addStock", "removeStock", "adjustStock"}

\* C25: the StockMovement log only grows at its end: no call changes or
\* removes a row; every addStock, removeStock and adjustStock that succeeds
\* appends exactly one row; a call that fails its argument check, finds no
\* row or not enough stock, and every other call, appends none.
C25_MovementsAppendOnly ==
    [][/\ Len(stockMovements') >= Len(stockMovements)
       /\ SubSeq(stockMovements', 1, Len(stockMovements)) = stockMovements
       /\ IF ncalls' = ncalls + 1 /\ last'.op \in StockOps /\ last'.res = "ok"
          THEN Len(stockMovements') = Len(stockMovements) + 1
          ELSE stockMovements' = stockMovements]_vars

\* a removeStock was refused for lack of stock after two calls had each
\* logged a movement: the log still holds those two rows
C25_Witness ==
    /\ last.op = "removeStock" /\ last.res = "NotEnoughStock"
    /\ Len(stockMovements) = 2
    /\ stockMovements[1].id = 1 /\ stockMovements[2].id = 2

----------------------------------------------------------------------------
(* One Inventory row per product *)

\* the product has a row in inv
HasRow(inv, productId) == \E i \in 1..Len(inv) : inv[i].productId = productId

----------------------------------------------------------------------------
(* Updates that leave the statistics alone *)

\* C27: an updateTransaction whose patch has none of amount, date and type
\* (only notes, for instance) leaves every DailyStats row unchanged: none
\* of its steps writes the table, and the call is over once its transaction
\* row is written.
C27_NotesOnlyKeepsStats ==
    [][\A p \in Procs :
          (/\ calls[p].op = "updateTransaction"
           /\ calls[p].pc \notin {"idle", "done"}
           /\ DOMAIN calls[p].data \cap {"amount", "date", "type"} = {}
           /\ calls'[p] # calls[p])
          => /\ dailyStats' = dailyStats
             /\ calls'[p].pc = "done"]_vars

\* an update of the notes alone has completed: the transaction row carries
\* the new notes and the row of its day is as it was
C27_Witness ==
    /\ \E p \in Procs :
           /\ calls[p].op = "updateTransaction" /\ calls[p].pc = "done"
           /\ calls[p].res = "ok"
           /\ calls[p].data = [notes |-> "n"]
           /\ \E t \in transactions : t.id = calls[p].id /\ t.notes = "n"
    /\ dailyStats = updateStatsForTransaction(<<>>, SeededTransaction)

----------------------------------------------------------------------------
(* Two removals racing on one row *)

\* the quantity stored in the Inventory row with the given id
StoredQuantity(inv, id) ==
    LET i == CHOOSE k \in 1..Len(inv) : inv[k].id = id
    IN  inv[i].quantity

\* C28: when two removeStock calls on one product have both passed the
\* sufficiency check against the same snapshot of the row, and the second
\* writes after the first has written, its write sets the row to snapshot
\* minus its own quantity: the earlier decrement is overwritten, and the
\* row holds more than the snapshot less both quantities. The interleaving
\* exists with a combined quantity above the stock; both calls succeed, and
\* afterwards the quantity differs from the initial quantity plus the sum of
\* the movement quantities.
C28_LostDecrement ==
    [][\A p, q \in Procs :
          (/\ p # q
           /\ calls[p].op = "removeStock" /\ calls[q].op = "removeStock"
           /\ calls[p].pc = "update" /\ calls'[p].pc = "move"
           /\ calls[q].pc = "move"
           /\ calls[q].invItem = calls[p].invItem)
          => LET snapshot == calls[p].invItem
             IN  /\ StoredQuantity(inventory', snapshot.id)
                        = snapshot.quantity - calls[p].quantity
                 /\ StoredQuantity(inventory', snapshot.id)
                        > snapshot.quantity - calls[p].quantity
                                            - calls[q].quantity]_vars

\* two removeStock calls on the seeded row have both succeeded, together
\* removing more than the row held; the quantity is not the initial quantity
\* plus the logged movements
C28_Witness ==
    /\ \A p \in Procs : calls[p].pc = "idle"
    /\ last.op = "removeStock" /\ last.res = "ok"
    /\ Len(inventory) = 1
    /\ Len(MovementsOf(1)) = 2
    /\ \A k \in 1..2 : MovementsOf(1)[k].actionType = "remove"
    /\ 0 - SumQuantities(MovementsOf(1)) > SeededInventory[1].quantity
    /\ inventory[1].quantity #
           SeededInventory[1].quantity + SumQuantities(MovementsOf(1))

----------------------------------------------------------------------------
(* Stock calls whose movement insert fails *)

\* the Inventory table after a failed movement insert, with the write of the
\* call taken back as a transaction would
afterFailedInsert_rollback(inv, invItem) ==
    setInventory(inv, invItem.id, [quantity |-> invItem.quantity])

\* the Inventory table after a failed movement insert: the update and the
\* insert are separate statements, nothing is taken back
afterFailedInsert(inv, invItem) == inv

\* await db.insert(stockMovements).values(...) throws: the call rejects
\* before returning and, for addStock, before the expense block
MovementInsertFails(p) ==
    /\ calls[p].pc = "move"
    /\ inventory' = afterFailedInsert(inventory, calls[p].invItem)
    /\ Finish(p, "InsertFailed")
    /\ UNCHANGED <<stockMovements, expenses, ncalls>>
    /\ ConcFrame

\* the steps of the stock calls of one caller, each call running to its end
\* before the next begins, with the movement insert free to fail
NextFault ==
    \E p \in {1} :
        \/ \E op \in StockOps, productId \in Products :
               \E quantity \in ConcQtyArgs(op) :
                   BeginStock(p, op, productId, quantity)
        \/ \E productId \in Products : BeginCreateItem(p, productId)
        \/ ReadInventory(p)
        \/ CreateRead(p)
        \/ CreateInsert(p)
        \/ \E fails \in BOOLEAN : CreateExpense(p, fails)
        \/ UpdateInventory(p)
        \/ \E fails \in Failures(IF calls[p].pc = "move"
                                    /\ calls[p].op = "addStock"
                                 THEN calls[p].invItem.purchasePrice ELSE 0) :
               InsertMovement(p, fails)
        \/ MovementInsertFails(p)

\* the stock ledger over a store whose movement inserts may fail
SpecStockFault == InitConc /\ [][NextFault]_vars

\* C29: the stock calls are not all-or-nothing: when the insert of the
\* StockMovement row fails after the Inventory update of addStock,
\* removeStock or adjustStock, the call reports a failure, the Inventory
\* table keeps what was written and the log gets no row for it.
C29_NoRollback ==
    [][\A p \in Procs :
          (/\ calls[p].op \in StockOps
           /\ calls[p].pc = "move"
           /\ calls'[p] = Idle
           /\ Len(stockMovements') = Len(stockMovements))
          => /\ last'.op = calls[p].op
             /\ last'.res # "ok"
             /\ inventory' = inventory
             /\ stockMovements' = stockMovements
             /\ expenses' = expenses]_vars

\* a removeStock took the seeded row from 1 to 0 and then failed on its
\* movement insert: the row holds 0 and the log is empty
C29_Witness ==
    /\ \A p \in Procs : calls[p].pc = "idle"
    /\ last.op = "removeStock" /\ last.res = "InsertFailed"
    /\ ncalls = 1
    /\ stockMovements = <<>>
    /\ inventory = [SeededInventory EXCEPT ![1].quantity = 0]

----------------------------------------------------------------------------
(* Arguments refused before anything is read or written *)

\* C30: addStock and removeStock with quantity <= 0, and adjustStock with
\* newQuantity < 0, fail at their argument check: no Inventory row is
\* created or changed, no StockMovement row is appended and no Expense is
\* created, whether or not the product has a row.
C30_RefusedBeforeAnyWrite ==
    [][(/\ ncalls' = ncalls + 1
        /\ \/ last'.op \in {"addStock", "removeStock"}
              /\ last'.data.quantity <= 0
           \/ last'.op = "adjustStock" /\ last'.data.quantity < 0)
       => /\ last'.res = (IF last'.op = "adjustStock" THEN "Negative"
                                                      ELSE "NotPositive")
          /\ inventory' = inventory
          /\ stockMovements' = stockMovements
          /\ expenses' = expenses]_vars

\* an addStock of zero for a product without a row was refused while the
\* other product has a row and a logged movement: no row was created
C30_Witness ==
    /\ last.op = "addStock" /\ last.data.quantity = 0
    /\ last.res = "NotPositive"
    /\ ~ HasRow(inventory, last.id)
    /\ Len(inventory) = 1
    /\ Len(stockMovements) = 1

====
